---- MODULE Spec2Model ----
(***************************************************************************)
(* Model of the Zoom backup pipeline: discovery into the inventory table,  *)
(* the Download Engine of zoom_api/download.py, the status updates of      *)
(* database/inventory.py, the metadata tables of database/metadata.py and  *)
(* the retry script retry_failed_downloads.py.                             *)
(***************************************************************************)
EXTENDS Integers, Sequences, FiniteSets, Bags, TLC

(* ------------------------------ bounds -------------------------------- *)

\* number of users of the account
NumUsers == 2
\* completed meeting recording files the remote API holds
NumMeetings == 1
\* phone recordings the remote API holds
NumPhones == 1
\* config["api"]["retries"]: attempts of one download_file call
Retries == 2
\* failed downloads one process may observe (caps total_401s)
Max401 == 2
\* forced token refreshes one process may obtain (caps the token generation)
MaxRefresh == 1
\* rows one recording may get in a metadata table without a unique key
MaxMetaRows == 2
\* largest retries budget of a make_api_request call
MaxApiRetries == 3

(* ------------------------- program constants -------------------------- *)

\* @db_retry(tries=3, ...) on update_recording_status
DbTries == 3

(* --------------------------- the remote API --------------------------- *)

Users == 1..NumUsers

\* ids of the recording files the API can return: completed meeting files,
\* phone recordings, and one meeting file that is still processing
MeetingFiles == 1..NumMeetings
PhoneFiles == (NumMeetings + 1)..(NumMeetings + NumPhones)
ProcessingFile == NumMeetings + NumPhones + 1
\* ... and one phone recording that carries no download_url
NoUrlFile == NumMeetings + NumPhones + 2
ApiFiles == MeetingFiles \cup PhoneFiles \cup {ProcessingFile, NoUrlFile}
\* the file of a webinar, which only the webinars/recordings endpoint returns
WebinarFile == NumMeetings + NumPhones + 3

ApiType(f) == IF f \in PhoneFiles \cup {NoUrlFile} THEN "phone"
              ELSE IF f = WebinarFile THEN "webinar" ELSE "meeting"
ApiUser(f) == ((f - 1) % NumUsers) + 1
ApiUrl(f) == IF f = NoUrlFile THEN "" ELSE "url"
ApiFileType(f) == IF f \in PhoneFiles THEN "mp3" ELSE "MP4"

NULL == "NULL"

\* no request made yet
NoResp == [m |-> "none", p |-> "none"]

(* ------------------------------- state -------------------------------- *)

VARIABLES
    inventory,        \* zoom_recording_inventory: sequence of rows, index = id
    metadata,         \* the three metadata tables: table name -> sequence of rows
    disk,             \* local filesystem: path -> "absent" | "partial" | "complete"
    prog,             \* the running program: "none" | "main" | "retry"
    pc,               \* its position
    userIdx,          \* discover_all_recordings: position in user_emails
    resp,             \* ... what the API answered in the last iteration
    recordings,       \* download_recordings_from_inventory: the fetched rows (ids)
    idx,              \* ... position in recordings
    cur,              \* ... outcome of the record being processed
    current_token,    \* ... the token in use (generation number)
    consecutive_401s, \* _token_refresh_counter['consecutive_401s']
    total_401s,       \* _token_refresh_counter['total_401s']
    failedAtStart,    \* ids with status failed when the retry script started
    uncommitted,      \* trailing rows of inventory inserted but not yet committed
    call,             \* make_api_request: the locals of the running call
    processingDone,   \* Zoom has finished processing the ProcessingFile
    fn,               \* a library function called on its own: [op, in, out]
    auth,             \* zoom_api/auth.py: access_token, token_expires_at, the
                      \* clock, and the token a discovery run passes around
    other             \* a second process on the same store: its batch

\* the variables of the backup pipeline
pipeline == <<inventory, metadata, disk, prog, pc, userIdx, resp, recordings,
              idx, cur, current_token, consecutive_401s, total_401s,
              failedAtStart, uncommitted>>

vars == <<inventory, metadata, disk, prog, pc, userIdx, resp, recordings,
          idx, cur, current_token, consecutive_401s, total_401s, failedAtStart,
          uncommitted, call,
                   processingDone, fn, auth, other>>

\* recording_files[].status as the API reports it
ApiStatus(f) ==
    IF f = ProcessingFile /\ ~processingDone THEN "processing" ELSE "completed"

(* ----------------------------- inventory ------------------------------ *)

\* UNIQUE(recording_type, recording_id, file_type)
InventoryKey(row) == <<row.recording_type, row.recording_id, row.file_type>>

\* the row an INSERT builds: status DEFAULT 'found', the other columns NULL
NewRow(rtype, rid, user, ftype, url, raw) ==
    [recording_type |-> rtype, recording_id |-> rid, user_email |-> user,
     file_type |-> ftype, download_url |-> url, raw_data |-> raw,
     status |-> "found", downloaded_at |-> NULL, error_message |-> NULL]

\* the INSERT without its ON CONFLICT clause on a table without the constraint
InsertAlways(inv, row) == Append(inv, row)

\* an upsert: ON CONFLICT ... DO UPDATE writes the new row over the old one
InsertOrReplace(inv, row) ==
    IF \E i \in DOMAIN inv : InventoryKey(inv[i]) = InventoryKey(row)
    THEN [i \in DOMAIN inv |->
             IF InventoryKey(inv[i]) = InventoryKey(row) THEN row ELSE inv[i]]
    ELSE Append(inv, row)

\* INSERT ... ON CONFLICT (recording_type, recording_id, file_type) DO NOTHING
InsertIgnoringConflict(inv, row) ==
    IF \E i \in DOMAIN inv : InventoryKey(inv[i]) = InventoryKey(row)
    THEN inv
    ELSE Append(inv, row)

insert_meeting_inventory(inv, rtype, f) ==
    InsertIgnoringConflict(inv,
        NewRow(rtype, f, ApiUser(f), ApiFileType(f), ApiUrl(f), f))

insert_phone_inventory(inv, f) ==
    InsertIgnoringConflict(inv,
        NewRow("phone", f, ApiUser(f), "mp3", ApiUrl(f), f))

\* the files of a set, in ascending id order (the order of the API pages)
RECURSIVE InOrder(_)
InOrder(S) ==
    IF S = {} THEN <<>>
    ELSE LET m == CHOOSE x \in S : \A y \in S : x <= y
         IN <<m>> \o InOrder(S \ {m})

\* a filter that lets every file through
AcceptsAnyFile(f) == TRUE

\* file_info.get("download_url") and file_info.get("status") == "completed"
AcceptsMeetingFile(f) == ApiUrl(f) # "" /\ ApiStatus(f) = "completed"

\* recording.get("download_url")
AcceptsPhoneRecording(f) == ApiUrl(f) # ""

RECURSIVE InsertMeetings(_, _)
InsertMeetings(inv, fs) ==
    IF fs = <<>> THEN inv
    ELSE LET f == Head(fs)
         IN InsertMeetings(
                IF AcceptsMeetingFile(f)
                THEN insert_meeting_inventory(inv, "meeting", f)
                ELSE inv,
                Tail(fs))

RECURSIVE InsertPhones(_, _)
InsertPhones(inv, fs) ==
    IF fs = <<>> THEN inv
    ELSE LET f == Head(fs)
         IN InsertPhones(
                IF AcceptsPhoneRecording(f) THEN insert_phone_inventory(inv, f)
                ELSE inv,
                Tail(fs))

RECURSIVE InsertWebinars(_, _)
InsertWebinars(inv, fs) ==
    IF fs = <<>> THEN inv
    ELSE LET f == Head(fs)
         IN InsertWebinars(
                IF AcceptsMeetingFile(f)
                THEN insert_meeting_inventory(inv, "webinar", f)
                ELSE inv,
                Tail(fs))

\* what make_api_request may do for the caller: return the pages ("ok"),
\* return None ("null"), or let an exception through ("raise")
ApiAnswers == {"ok", "null", "raise"}

\* the connection's view of the table after the insert loop, before the
\* commit. answer = "ok": the API returned the user's pages; otherwise the
\* loop is left before any insert
discover_meeting_recordings(inv, u, answer) ==
    IF answer # "ok" THEN inv
    ELSE InsertMeetings(inv,
            InOrder({f \in ApiFiles : ApiType(f) = "meeting" /\ ApiUser(f) = u}))

\* discover_webinar_recordings, the same loop on webinars/recordings
discover_webinar_recordings(inv, u, answer) ==
    IF answer # "ok" THEN inv
    ELSE InsertWebinars(inv, InOrder({f \in {WebinarFile} : ApiUser(f) = u}))

discover_phone_recordings(inv, u, answer) ==
    IF answer # "ok" THEN inv
    ELSE InsertPhones(inv,
            InOrder({f \in ApiFiles : ApiType(f) = "phone" /\ ApiUser(f) = u}))

\* SELECT id ... WHERE status = 'found' (start times rise with the id, so
\* ORDER BY start_time DESC is descending id order)
RECURSIVE Descending(_)
Descending(S) ==
    IF S = {} THEN <<>>
    ELSE LET m == CHOOSE x \in S : \A y \in S : x >= y
         IN <<m>> \o Descending(S \ {m})

\* the SELECT without its WHERE clause
get_all_recordings(inv) == Descending(DOMAIN inv)

get_undownloaded_recordings(inv) ==
    Descending({i \in DOMAIN inv : inv[i].status = "found"})

\* SELECT status, COUNT(*) ... GROUP BY status, read for one status
StatusCount(inv, s) == Cardinality({i \in DOMAIN inv : inv[i].status = s})

\* the statuses setup_database documents for the status column
Statuses == {"found", "downloaded", "failed", "skipped"}

\* get_status_counts: SELECT status, COUNT(*) ... GROUP BY status, one pair
\* for every status that occurs in the table
get_status_counts(inv) ==
    [s \in {inv[i].status : i \in DOMAIN inv} |-> StatusCount(inv, s)]

\* sum(count for _, count in status_counts), over the statuses in S
RECURSIVE SumCounts(_, _)
SumCounts(counts, S) ==
    IF S = {} THEN 0
    ELSE LET s == CHOOSE x \in S : TRUE
         IN counts[s] + SumCounts(counts, S \ {s})

\* get_download_progress: total and by_status
get_download_progress(inv) ==
    LET status_counts == get_status_counts(inv)
    IN [total |-> SumCounts(status_counts, DOMAIN status_counts),
        by_status |-> status_counts]

(* ------------------------- retry decorators --------------------------- *)

\* utils/misc.py retry: the loop runs while mtries > 1, then one last call,
\* so f is called at most max(tries, 1) times
RetryAttempts(tries) == IF tries > 1 THEN tries ELSE 1

\* outcomes of the calls f makes until it returns, per attempt "ok" or a failure
AttemptOutcomes(kinds, tries) == [1..RetryAttempts(tries) -> kinds]

\* the decorated call returns at the first attempt that does not raise and
\* raises when every attempt raised
RetryRaises(outs, tries) == \A k \in 1..RetryAttempts(tries) : outs[k] # "ok"

(* ---------------------------- file download --------------------------- *)

\* one _download_file_with_retry attempt: "ok" writes the whole file;
\* "http401" and "error" raise before the file is opened; "partial" raises
\* after open(dest_path, "wb") while the body is streamed
DownloadKinds == {"ok", "http401", "error", "partial"}

AfterFailedAttempt(file, kind) == IF kind = "partial" THEN "partial" ELSE file

RECURSIVE DownloadAttempts(_, _, _, _)
DownloadAttempts(file, outs, k, n) ==
    IF k > n THEN [success |-> FALSE, file |-> file, attempts |-> n,
                   last |-> outs[n], kinds |-> {outs[j] : j \in 1..n}]
    ELSE IF outs[k] = "ok"
         THEN [success |-> TRUE, file |-> "complete", attempts |-> k,
               last |-> "ok", kinds |-> {outs[j] : j \in 1..k}]
         ELSE DownloadAttempts(AfterFailedAttempt(file, outs[k]), outs, k + 1, n)

\* utils/file.py download_file: the decorated download, every exception
\* turned into False
download_file(file, outs, retries) ==
    DownloadAttempts(file, outs, 1, RetryAttempts(retries))

\* should_refresh_token
should_refresh_token(consec) == consec >= 1

\* a variant that repeats the download although no new token was obtained
download_file_retry_without_refresh(file, token, consec, total, o1, refreshOk, o2) ==
    LET r1 == download_file(file, o1, Retries)
    IN  IF r1.success
        THEN [success |-> TRUE, token |-> token, file |-> r1.file,
              consec |-> 0, total |-> total, calls |-> 1, refreshed |-> FALSE,
              first |-> r1.kinds]
        ELSE LET r2 == download_file(r1.file, o2, Retries)
             IN  [success |-> r2.success,
                  token |-> IF refreshOk THEN token + 1 ELSE token,
                  file |-> r2.file,
                  consec |-> IF refreshOk \/ r2.success THEN 0 ELSE consec + 1,
                  total |-> total + 1, calls |-> 2, refreshed |-> refreshOk,
                  first |-> r1.kinds]

\* a variant without reset_401_counter() after a download that succeeded
download_file_counter_kept(file, token, consec, total, o1, refreshOk, o2) ==
    LET r1 == download_file(file, o1, Retries)
    IN  IF r1.success
        THEN [success |-> TRUE, token |-> token, file |-> r1.file,
              consec |-> consec, total |-> total, calls |-> 1,
              refreshed |-> FALSE, first |-> r1.kinds]
        ELSE LET c1 == consec + 1
                 t1 == total + 1
             IN  IF should_refresh_token(c1) /\ refreshOk
                 THEN LET r2 == download_file(r1.file, o2, Retries)
                      IN  [success |-> r2.success, token |-> token + 1,
                           file |-> r2.file, consec |-> 0, total |-> t1,
                           calls |-> 2, refreshed |-> TRUE, first |-> r1.kinds]
                 ELSE [success |-> FALSE, token |-> token, file |-> r1.file,
                       consec |-> c1, total |-> t1, calls |-> 1,
                       refreshed |-> FALSE, first |-> r1.kinds]

\* download_file_with_token_refresh; o1, o2 are the attempt outcomes of the
\* first and of the repeated download_file call, refreshOk whether
\* get_access_token(force_refresh=True) returned a token
download_file_with_token_refresh(file, token, consec, total, o1, refreshOk, o2) ==
    LET r1 == download_file(file, o1, Retries)
    IN  IF r1.success
        THEN [success |-> TRUE, token |-> token, file |-> r1.file,
              consec |-> 0, total |-> total, calls |-> 1, refreshed |-> FALSE,
              first |-> r1.kinds]
        ELSE LET c1 == consec + 1
                 t1 == total + 1
             IN  IF should_refresh_token(c1) /\ refreshOk
                 THEN LET r2 == download_file(r1.file, o2, Retries)
                      IN  [success |-> r2.success, token |-> token + 1,
                           file |-> r2.file, consec |-> 0, total |-> t1,
                           calls |-> 2, refreshed |-> TRUE, first |-> r1.kinds]
                 ELSE [success |-> FALSE, token |-> token, file |-> r1.file,
                       consec |-> c1, total |-> t1, calls |-> 1,
                       refreshed |-> FALSE, first |-> r1.kinds]

(* --------------------------- metadata tables -------------------------- *)

Tables == {"meeting", "phone", "webinar"}

\* setup_database: only zoom_phone_recordings declares recording_id UNIQUE;
\* zoom_recordings and zoom_webinar_recordings have no unique column but id
HasUniqueRecordingId(table) == table = "phone"

\* INSERT ... ON CONFLICT DO NOTHING on a table (a bag of rows: the serial id
\* apart, a table may hold equal rows)
InsertMetadata(rows, table, row) ==
    IF HasUniqueRecordingId(table)
       /\ \E r \in BagToSet(rows) : r.recording_id = row.recording_id
    THEN rows
    ELSE rows (+) SetToBag({row})

\* save_meeting_metadata / save_phone_metadata: out = "ok" when execute and
\* commit went through, "err" when one raised (rollback, return False)
MetadataRow(row, path) ==
    [recording_id |-> row.recording_id, path |-> path,
     email |-> row.user_email]

\* a save that reports success without a row in the table
save_metadata_unsaved(md, table, row, path, out) ==
    [success |-> out = "ok", md |-> md]

save_metadata(md, table, row, path, out) ==
    IF out = "ok"
    THEN [success |-> TRUE,
          md |-> [md EXCEPT ![table] = InsertMetadata(@, table, MetadataRow(row, path))]]
    ELSE [success |-> FALSE, md |-> md]

\* SELECT COUNT(*) FROM the table WHERE recording_id = rid
RECURSIVE SumCopies(_, _)
SumCopies(B, S) ==
    IF S = {} THEN 0
    ELSE LET r == CHOOSE x \in S : TRUE
         IN CopiesIn(r, B) + SumCopies(B, S \ {r})

RowsFor(md, table, rid) ==
    SumCopies(md[table], {r \in BagToSet(md[table]) : r.recording_id = rid})

(* --------------------------- Download Engine -------------------------- *)

\* {base_dir}_{version}/{meetings|phone}/{user_email}/{filename}; the file
\* name is built from the ids of the recording
DataDir(rtype) == IF rtype = "phone" THEN "phone"
                  ELSE IF rtype = "webinar" THEN "webinars" ELSE "meetings"
\* a file name built from the id of the meeting alone: the files of one
\* meeting of a user share a path
FilePathPerMeeting(row) ==
    <<DataDir(row.recording_type), row.user_email,
      CHOOSE f \in ApiFiles \cup {WebinarFile} :
          ApiUser(f) = row.user_email /\ ApiType(f) = row.recording_type>>

FilePath(row) == <<DataDir(row.recording_type), row.user_email, row.raw_data>>
Paths == {<<DataDir(ApiType(f)), ApiUser(f), f>> :
             f \in ApiFiles \cup {WebinarFile}}

\* an existence test that finds every file
path_always_exists(dsk, path) == TRUE

\* an existence test that never finds the file
path_never_exists(dsk, path) == FALSE

\* os.path.exists(file_path)
path_exists(dsk, path) == dsk[path] # "absent"

\* download_meeting_from_inventory / download_phone_from_inventory: the body
\* of the try; the except clause returns (False, token) for any exception
DownloadFromInventory(row, table, token, consec, total, dsk, md, e) ==
    LET path == FilePath(row)
        base == [success |-> FALSE, token |-> token, disk |-> dsk,
                 metadata |-> md, consec |-> consec, total |-> total,
                 calls |-> 0, refreshed |-> FALSE, exists |-> FALSE,
                 meta |-> "none", raised |-> "none", first |-> {}]
    IN  IF e.dirExc
        THEN [base EXCEPT !.raised = "OSError: makedirs"]
        ELSE
        LET existed == path_exists(dsk, path)
            d == IF existed
                 THEN [success |-> TRUE, token |-> token, file |-> dsk[path],
                       consec |-> consec, total |-> total, calls |-> 0,
                       refreshed |-> FALSE, first |-> {}]
                 ELSE download_file_with_token_refresh(
                          dsk[path], token, consec, total,
                          e.o1, e.refreshOk, e.o2)
            dsk2 == [dsk EXCEPT ![path] = d.file]
            got == [base EXCEPT !.token = d.token, !.disk = dsk2,
                                !.consec = d.consec, !.total = d.total,
                                !.calls = d.calls, !.refreshed = d.refreshed,
                                !.first = d.first]
        IN  IF ~d.success
            THEN [got EXCEPT !.raised = "RequestException: download"]
            ELSE LET m == save_metadata(md, table, row, path, e.metaOut)
                 IN  [got EXCEPT !.success = m.success, !.metadata = m.md,
                                 !.exists = TRUE,
                                 !.meta = IF m.success THEN "true" ELSE "false",
                                 !.raised = IF m.success THEN "none"
                                            ELSE "DatabaseError: insert"]

download_meeting_from_inventory(row, token, consec, total, dsk, md, e) ==
    DownloadFromInventory(row, "meeting", token, consec, total, dsk, md, e)

download_phone_from_inventory(row, token, consec, total, dsk, md, e) ==
    DownloadFromInventory(row, "phone", token, consec, total, dsk, md, e)

\* the dispatch of download_recordings_from_inventory on rec_type
ProcessOne(row, token, consec, total, dsk, md, e) ==
    IF row.recording_type = "meeting"
    THEN download_meeting_from_inventory(row, token, consec, total, dsk, md, e)
    ELSE IF row.recording_type = "phone"
    THEN download_phone_from_inventory(row, token, consec, total, dsk, md, e)
    ELSE [success |-> FALSE, token |-> token, disk |-> dsk, metadata |-> md,
          consec |-> consec, total |-> total, calls |-> 0,
          refreshed |-> FALSE, exists |-> FALSE, meta |-> "none",
          raised |-> "none", first |-> {}]

\* a status word of its own for the records that did not download
status_done_or_error(success) == IF success THEN "downloaded" ELSE "error"

\* a status that no longer depends on the outcome
status_always_downloaded(success) == "downloaded"

\* status = "downloaded" if success else "failed"
status_of(success) == IF success THEN "downloaded" ELSE "failed"

\* an UPDATE that sets the status column alone
update_status_column(inv, id, status, downloaded_at, error_message) ==
    [inv EXCEPT ![id].status = status]

\* update_recording_status under @db_retry: the UPDATE and its commit
update_recording_status(inv, id, status, downloaded_at, error_message) ==
    [inv EXCEPT ![id].status = status,
                ![id].downloaded_at = downloaded_at,
                ![id].error_message = error_message]

\* the locals of one loop iteration, between the download and the update
NoCur == [id |-> 0, success |-> FALSE, calls |-> 0, exists |-> FALSE,
          meta |-> "none", raised |-> "none", first |-> {}]

(* ------------------------------ API client ---------------------------- *)

\* URLs and e-mail addresses are sequences of words; "phone" in url is the
\* test whether the word occurs in the sequence
Emails == {<<"alice", "@", "example.com">>,
           <<"phone", ".", "desk", "@", "example.com">>}

\* urllib.parse.quote: letters, digits and '.' stay, '@' becomes %40
quote(email) == [i \in DOMAIN email |-> IF email[i] = "@" THEN "%40" ELSE email[i]]

Endpoints == {"users", "meetings", "phone"}

\* the URL a caller builds: get_zoom_users, discover_meeting_recordings,
\* discover_phone_recordings
UrlOf(endpoint, email) ==
    IF endpoint = "users" THEN <<"https://api.zoom.us", "v2", "users">>
    ELSE IF endpoint = "meetings"
    THEN <<"https://api.zoom.us", "v2", "users">> \o quote(email) \o <<"recordings">>
    ELSE <<"https://api.zoom.us", "v2", "phone", "users">> \o quote(email)
             \o <<"recordings">>

Contains(url, word) == \E i \in DOMAIN url : url[i] = word

\* what one requests.get may end in: a status code, or an exception that is
\* not an HTTPError ("transport": connection error, timeout, invalid JSON)
HttpOutcomes == {"200", "401", "429", "400", "404", "500", "transport"}

\* no make_api_request call is running
NoCall == [pc |-> "idle", endpoint |-> "users", url |-> <<>>, retries |-> 0,
           attempt |-> 0, token |-> 0, minted |-> 0, requests |-> 0,
           delays |-> 0, refreshes |-> 0, limited |-> 0, last |-> "none",
           sentWith |-> 0, result |-> "none"]

\* return from the function
ReturnWith(c, r) == [c EXCEPT !.pc = "returned", !.result = r]

\* continue: the next iteration of for attempt in range(retries), or, when
\* the range is used up, the return None after the loop
Continue(c) ==
    IF c.attempt + 1 < c.retries
    THEN [c EXCEPT !.attempt = @ + 1]
    ELSE ReturnWith(c, "null")

\* a 401 branch that mints a token and leaves the request headers alone
On401StaleHeaders(c, refreshOk) ==
    IF c.attempt < c.retries - 1
    THEN IF refreshOk
         THEN Continue([c EXCEPT !.minted = @ + 1, !.refreshes = @ + 1])
         ELSE ReturnWith([c EXCEPT !.refreshes = @ + 1], "raised")
    ELSE ReturnWith(c, "null")

\* status 401: before the last attempt get_access_token(force_refresh=True),
\* whose exception (raised inside the except clause) leaves the function;
\* on the last attempt return None
On401(c, refreshOk) ==
    IF c.attempt < c.retries - 1
    THEN IF refreshOk
         THEN Continue([c EXCEPT !.token = c.minted + 1, !.minted = @ + 1,
                                 !.refreshes = @ + 1])
         ELSE ReturnWith([c EXCEPT !.refreshes = @ + 1], "raised")
    ELSE ReturnWith(c, "null")

\* a 429 branch that repeats the request without using up an attempt
OnRateLimitUncounted(c) == [c EXCEPT !.limited = @ + 1]

\* status 429: the long sleep, then continue
OnRateLimit(c) == Continue([c EXCEPT !.limited = @ + 1])

\* "phone" in url
PhoneInUrl(c) == Contains(c.url, "phone")

\* status 400 / 404 on a URL with "phone" in it: return None at once
IsNoLicense(c, o) == o \in {"400", "404"} /\ PhoneInUrl(c)

\* any other HTTPError: log, sleep, continue
OnOtherHttpError(c) == Continue(c)

\* except Exception: continue, or return None on the last attempt
OnRequestError(c) ==
    IF c.attempt < c.retries - 1 THEN Continue(c) ELSE ReturnWith(c, "null")

\* one iteration of the loop of make_api_request: the rate-limit delay, the
\* request with the current headers, then the branch of its outcome
ApiIteration(c, o, refreshOk) ==
    LET s == [c EXCEPT !.delays = @ + 1, !.requests = @ + 1,
                       !.sentWith = c.token, !.last = o]
    IN  IF o = "200" THEN ReturnWith(s, "json")
        ELSE IF o = "401" THEN On401(s, refreshOk)
        ELSE IF o = "429" THEN OnRateLimit(s)
        ELSE IF IsNoLicense(s, o) THEN ReturnWith(s, "null")
        ELSE IF o = "transport" THEN OnRequestError(s)
        ELSE OnOtherHttpError(s)

\* make_api_request(url, token, config, params, retries) is called
ApiCall ==
    /\ call.pc = "idle"
    /\ \E endpoint \in Endpoints, email \in Emails, retries \in 0..MaxApiRetries :
          LET c == [NoCall EXCEPT !.pc = "loop", !.endpoint = endpoint,
                                  !.url = UrlOf(endpoint, email),
                                  !.retries = retries]
          IN call' = IF retries = 0 THEN ReturnWith(c, "null") ELSE c
    /\ UNCHANGED <<pipeline, processingDone, fn, auth, other>>

\* one iteration; the environment decides the outcome of the request and
\* whether the forced refresh returns a token
ApiAttempt ==
    /\ call.pc = "loop"
    /\ \E o \in HttpOutcomes :
       \E refreshOk \in IF o = "401" /\ call.attempt < call.retries - 1
                        THEN BOOLEAN ELSE {TRUE} :
          call' = ApiIteration(call, o, refreshOk)
    /\ UNCHANGED <<pipeline, processingDone, fn, auth, other>>

\* the caller has the result (or the exception)
ApiReturn ==
    /\ call.pc = "returned"
    /\ call' = NoCall
    /\ UNCHANGED <<pipeline, processingDone, fn, auth, other>>

(* ------------------------ get_file_extension -------------------------- *)

\* strings are sequences of characters; the bound on their length
MaxStrLen == 2
Chars == {"C", "c", "X", "x"}
Strs == UNION {[1..n -> Chars] : n \in 0..MaxStrLen}

\* a key the dictionary does not hold
Missing == <<"(missing)">>

\* str.lower
LowerChar(c) == IF c = "C" THEN "c" ELSE IF c = "X" THEN "x" ELSE c
Lower(s) == [i \in DOMAIN s |-> LowerChar(s[i])]

\* config["file_extensions"]: file type "cc" (closed captions) is stored as vtt
file_extensions == [t \in {<<"c", "c">>} |-> <<"v", "t", "t">>]

Unknown == <<"unknown">>

\* dict.get(key, default)
Get(value, default) == IF value = Missing THEN default ELSE value

\* a variant that looks at the file type first
get_file_extension_type_first(file_info, type_mapping) ==
    LET file_type == Lower(Get(file_info.file_type, <<>>))
    IN  IF file_type \in DOMAIN type_mapping THEN type_mapping[file_type]
        ELSE IF Get(file_info.file_extension, <<>>) # <<>>
        THEN Lower(file_info.file_extension)
        ELSE IF file_type # <<>> THEN file_type ELSE Unknown

get_file_extension(file_info, type_mapping) ==
    LET file_ext == Get(file_info.file_extension, <<>>)
    IN  IF file_ext # <<>>
        THEN Lower(file_ext)
        ELSE LET file_type == Lower(Get(file_info.file_type, <<>>))
             IN  IF file_type \in DOMAIN type_mapping
                 THEN type_mapping[file_type]
                 ELSE IF file_type # <<>> THEN file_type ELSE Unknown

(* ------------------------ add_passcode_to_url ------------------------- *)

\* a URL is its part before the '?' and its query, a sequence of
\* <<name, value>> pairs; the bound on the number of pairs
MaxParams == 2
ParamNames == {"z", "pwd"}
ParamValues == {"", "1", "abc123"}
Queries == UNION {[1..n -> ParamNames \X ParamValues] : n \in 0..MaxParams}
Urls == [base : {"https://x/y"}, query : Queries]

\* meeting_data.get('recording_play_passcode'): None when the key is missing
Passcodes == {NULL, "", "abc123"}

\* a dict of lists: its keys in insertion order and the list of every key
EmptyDict == [keys |-> <<>>, vals |-> <<>>]

HasKey(d, k) == \E i \in DOMAIN d.keys : d.keys[i] = k

KeyIndex(d, k) == CHOOSE i \in DOMAIN d.keys : d.keys[i] = k

\* d[k] = list
SetItem(d, k, list) ==
    IF HasKey(d, k)
    THEN [d EXCEPT !.vals[KeyIndex(d, k)] = list]
    ELSE [keys |-> Append(d.keys, k), vals |-> Append(d.vals, list)]

\* urllib.parse.parse_qs with keep_blank_values=False: a pair whose value is
\* blank is dropped, the values of a repeated name are collected in one list
RECURSIVE parse_qs_from(_, _, _)
parse_qs_from(query, i, d) ==
    IF i > Len(query) THEN d
    ELSE LET k == query[i][1]
             v == query[i][2]
         IN parse_qs_from(query, i + 1,
                IF v = "" THEN d
                ELSE IF HasKey(d, k)
                THEN SetItem(d, k, Append(d.vals[KeyIndex(d, k)], v))
                ELSE SetItem(d, k, <<v>>))

parse_qs(query) == parse_qs_from(query, 1, EmptyDict)

\* urllib.parse.urlencode(d, doseq=True): one pair per value, key by key
RECURSIVE urlencode_from(_, _)
urlencode_from(d, i) ==
    IF i > Len(d.keys) THEN <<>>
    ELSE [j \in DOMAIN d.vals[i] |-> <<d.keys[i], d.vals[i][j]>>]
            \o urlencode_from(d, i + 1)

urlencode(d) == urlencode_from(d, 1)

add_passcode_to_url(download_url, passcode) ==
    IF passcode = NULL \/ passcode = ""
    THEN download_url
    ELSE [download_url EXCEPT
             !.query = urlencode(SetItem(parse_qs(@), "pwd", <<passcode>>))]

(* ---------------- discover_meeting_recordings: requests --------------- *)

\* the date windows of generate_date_ranges and the pages of one window
NumRanges == 2
MaxPages == 2

\* what make_api_request answers to the request of a page: the page with a
\* next_page_token ("more"), the page without ("last"), None ("null"), or an
\* exception ("raise")
PageAnswers == {"more", "last", "null", "raise"}

\* the answers to the requests of a window; its last page has no successor
WindowAnswers == {a \in [1..MaxPages -> PageAnswers] : a[MaxPages] # "more"}

\* the requests discover_meeting_recordings issues for one user, as
\* <<window, page>> pairs: 'break' on None leaves the while loop of the
\* window, and the for loop goes on with the next window
RECURSIVE meeting_requests(_, _, _)
meeting_requests(answers, r, p) ==
    IF r > NumRanges THEN <<>>
    ELSE <<<<r, p>>>> \o
         (IF answers[r][p] = "raise" THEN <<>>
          ELSE IF answers[r][p] = "more"
          THEN meeting_requests(answers, r, p + 1)
          ELSE meeting_requests(answers, r + 1, 1))

(* ------------------------ generate_date_ranges ------------------------ *)

\* a small calendar: dates are <<month, day>>, months are numbered on from 1,
\* odd months have 3 days and even months 2
NumMonths == 4
MaxMonthsPerRange == 2
MonthDays(month) == IF month % 2 = 1 THEN 3 ELSE 2
Dates == {d \in (1..NumMonths) \X (1..3) : d[2] <= MonthDays(d[1])}

\* a < b on datetimes
Before(a, b) == a[1] < b[1] \/ (a[1] = b[1] /\ a[2] < b[2])

MinDate(a, b) == IF Before(b, a) THEN b ELSE a

\* date + relativedelta(months=m): the day is cut to the length of the month
AddMonths(date, m) ==
    <<date[1] + m,
      IF date[2] > MonthDays(date[1] + m) THEN MonthDays(date[1] + m)
      ELSE date[2]>>

\* a variant without min(..., end)
RECURSIVE generate_date_ranges_unclipped(_, _, _)
generate_date_ranges_unclipped(current, end, months_per_range) ==
    IF ~Before(current, end) THEN <<>>
    ELSE LET range_end == AddMonths(current, months_per_range)
         IN <<<<current, range_end>>>>
               \o generate_date_ranges_unclipped(range_end, end, months_per_range)

\* while current < end: range_end = min(current + months, end); append;
\* current = range_end
RECURSIVE generate_date_ranges(_, _, _)
generate_date_ranges(current, end, months_per_range) ==
    IF ~Before(current, end) THEN <<>>
    ELSE LET range_end == MinDate(AddMonths(current, months_per_range), end)
         IN <<<<current, range_end>>>>
               \o generate_date_ranges(range_end, end, months_per_range)

(* ------------------------------ the token ----------------------------- *)

\* the clock runs to MaxTime; the token endpoint issues at most MaxTokens
\* tokens (token n is the n-th it issued, 0 is None)
MaxTime == 3
MaxTokens == 3

\* @api_retry(tries=3, ...) on _get_token_from_api
TokenTries == 3

\* config['api']['token_refresh_buffer'] and the expires_in values of the
\* token endpoint, in ticks of the clock
TokenRefreshBuffer == 1
ExpiresIn == {1, 3}

\* module state of zoom_api/auth.py at import (access_token = None,
\* token_expires_at = None: <<>>), and no discovery run
NoAuth == [access_token |-> 0, token_expires_at |-> <<>>, now |-> 0,
           issued |-> 0, ret |-> "none", returned |-> 0, endpoint_calls |-> 0,
           forced |-> FALSE, mint |-> "none", held |-> 0, sent |-> 0,
           rejected |-> 0]

\* what the token endpoint does when it is asked: without credentials
\* _get_token_from_api raises before the request, otherwise the requests of
\* the retry decorator all fail ("error") or one of them succeeds ("ok")
MintOutcome(credentials, outs) ==
    IF ~credentials THEN "no credentials"
    ELSE IF RetryRaises(outs, TokenTries) THEN "error" ELSE "ok"

\* the number of calls the retry decorator makes for the outcomes outs
CallsMade(outs, tries) ==
    IF RetryRaises(outs, tries) THEN RetryAttempts(tries)
    ELSE CHOOSE k \in 1..RetryAttempts(tries) :
            outs[k] = "ok" /\ \A j \in 1..(k - 1) : outs[j] # "ok"

\* if not force_refresh and access_token and token_expires_at:
\*     if datetime.now() < token_expires_at
CachedTokenValid(a) ==
    /\ a.access_token # 0
    /\ a.token_expires_at # <<>>
    /\ a.now < a.token_expires_at[1]

\* a variant that returns whatever token is cached, expired or not
get_access_token_no_expiry(a, force_refresh, credentials, outs, expires_in) ==
    IF ~force_refresh /\ a.access_token # 0
    THEN [a EXCEPT !.ret = "token", !.returned = a.access_token,
                   !.endpoint_calls = 0, !.forced = force_refresh]
    ELSE IF ~credentials \/ RetryRaises(outs, TokenTries)
    THEN [a EXCEPT !.ret = "raised", !.returned = 0,
                   !.endpoint_calls = IF credentials THEN TokenTries ELSE 0,
                   !.forced = force_refresh]
    ELSE [a EXCEPT !.access_token = a.issued + 1, !.issued = @ + 1,
                   !.token_expires_at =
                       <<a.now + expires_in - TokenRefreshBuffer>>,
                   !.ret = "token", !.returned = a.issued + 1,
                   !.endpoint_calls = CallsMade(outs, TokenTries),
                   !.forced = force_refresh]

\* a variant that stores the new token before the request is known to have
\* succeeded
get_access_token_early_store(a, force_refresh, credentials, outs, expires_in) ==
    IF ~force_refresh /\ CachedTokenValid(a)
    THEN [a EXCEPT !.ret = "token", !.returned = a.access_token,
                   !.endpoint_calls = 0, !.forced = force_refresh]
    ELSE IF ~credentials \/ RetryRaises(outs, TokenTries)
    THEN [a EXCEPT !.access_token = 0, !.token_expires_at = <<>>,
                   !.ret = "raised", !.returned = 0,
                   !.endpoint_calls = IF credentials THEN TokenTries ELSE 0,
                   !.forced = force_refresh]
    ELSE [a EXCEPT !.access_token = a.issued + 1, !.issued = @ + 1,
                   !.token_expires_at =
                       <<a.now + expires_in - TokenRefreshBuffer>>,
                   !.ret = "token", !.returned = a.issued + 1,
                   !.endpoint_calls = CallsMade(outs, TokenTries),
                   !.forced = force_refresh]

\* get_access_token(config, force_refresh): the cached token while it is
\* valid; otherwise _get_token_from_api, which raises ValueError without
\* credentials (not retried) or after TokenTries failed requests; the module
\* variables are assigned only after it returned
get_access_token(a, force_refresh, credentials, outs, expires_in) ==
    IF ~force_refresh /\ CachedTokenValid(a)
    THEN [a EXCEPT !.ret = "token", !.returned = a.access_token,
                   !.endpoint_calls = 0, !.forced = force_refresh]
    ELSE IF ~credentials \/ RetryRaises(outs, TokenTries)
    THEN [a EXCEPT !.ret = "raised", !.returned = 0,
                   !.endpoint_calls = IF credentials THEN TokenTries ELSE 0,
                   !.forced = force_refresh]
    ELSE [a EXCEPT !.access_token = a.issued + 1, !.issued = @ + 1,
                   !.token_expires_at =
                       <<a.now + expires_in - TokenRefreshBuffer>>,
                   !.ret = "token", !.returned = a.issued + 1,
                   !.endpoint_calls = CallsMade(outs, TokenTries),
                   !.forced = force_refresh]

(* -------------------------------- Init -------------------------------- *)

\* no second process
NoOther == [pc |-> "idle", recordings |-> <<>>, idx |-> 0, token |-> 0,
            consec |-> 0, total |-> 0]

\* no library function has been called
NoFn == [op |-> "none", in |-> <<>>, out |-> <<>>]

\* setup_database on an empty store, an empty base directory, no process
InitStore ==
    /\ inventory = <<>>
    /\ metadata = [t \in Tables |-> EmptyBag]
    /\ disk = [p \in Paths |-> "absent"]
    /\ prog = "none"
    /\ pc = "idle"
    /\ userIdx = 0
    /\ resp = NoResp
    /\ recordings = <<>>
    /\ idx = 0
    /\ cur = NoCur
    /\ current_token = 0
    /\ consecutive_401s = 0
    /\ total_401s = 0
    /\ failedAtStart = {}
    /\ uncommitted = 0
    /\ call = NoCall
    /\ fn = NoFn
    /\ auth = NoAuth
    /\ other = NoOther

\* ... while one meeting file of the account is still being processed
Init ==
    /\ InitStore
    /\ processingDone = FALSE

(* ------------------------------ discovery ----------------------------- *)

\* main(): a new process; setup_database, get_access_token, get_zoom_users,
\* then discover_all_recordings starts with the first user
StartMain ==
    /\ pc = "idle"
    /\ prog' = "main"
    /\ pc' = "discover"
    /\ userIdx' = 1
    /\ UNCHANGED <<inventory, metadata, disk, resp, recordings, idx, cur,
                   current_token, consecutive_401s, total_401s, failedAtStart,
                   uncommitted, call,
                   processingDone, fn, auth, other>>

\* the except clause that lets the exception out of the loop
discover_error_reraises(u) == [pc |-> "aborted", userIdx |-> u]

\* the except clause of discover_all_recordings: log, continue with the
\* next user
discover_error_continues(u) == [pc |-> "discover", userIdx |-> u + 1]

\* one iteration of discover_all_recordings, first call:
\* discover_meeting_recordings up to its conn.commit(). When the request
\* raises, the except clause of the loop is next and the phone recordings of
\* the user are skipped
DiscoverMeetings ==
    /\ pc = "discover"
    /\ userIdx <= NumUsers
    /\ \E m \in ApiAnswers :
          /\ inventory' = discover_meeting_recordings(inventory, userIdx, m)
          /\ resp' = [m |-> m, p |-> "none"]
          /\ IF m = "raise"
             THEN /\ pc' = discover_error_continues(userIdx).pc
                  /\ userIdx' = discover_error_continues(userIdx).userIdx
             ELSE /\ pc' = "commit_meetings"
                  /\ userIdx' = userIdx
    /\ uncommitted' = uncommitted + Len(inventory') - Len(inventory)
    /\ UNCHANGED <<metadata, disk, prog, recordings, idx, cur, current_token,
                   consecutive_401s, total_401s, failedAtStart, call,
                   processingDone, fn, auth, other>>

\* conn.commit() at the end of discover_meeting_recordings
CommitMeetings ==
    /\ pc = "commit_meetings"
    /\ uncommitted' = 0
    /\ pc' = "phones"
    /\ UNCHANGED <<inventory, metadata, disk, prog, userIdx, resp, recordings,
                   idx, cur, current_token, consecutive_401s, total_401s,
                   failedAtStart, call,
                   processingDone, fn, auth, other>>

\* second call of the iteration: discover_phone_recordings up to its
\* conn.commit()
DiscoverPhones ==
    /\ pc = "phones"
    /\ \E p \in ApiAnswers :
          /\ inventory' = discover_phone_recordings(inventory, userIdx, p)
          /\ resp' = [resp EXCEPT !.p = p]
          /\ IF p = "raise"
             THEN /\ pc' = discover_error_continues(userIdx).pc
                  /\ userIdx' = discover_error_continues(userIdx).userIdx
             ELSE /\ pc' = "commit_phones"
                  /\ userIdx' = userIdx
    /\ uncommitted' = uncommitted + Len(inventory') - Len(inventory)
    /\ UNCHANGED <<metadata, disk, prog, recordings, idx, cur, current_token,
                   consecutive_401s, total_401s, failedAtStart, call,
                   processingDone, fn, auth, other>>

\* conn.commit() at the end of discover_phone_recordings; the iteration ends
CommitPhones ==
    /\ pc = "commit_phones"
    /\ uncommitted' = 0
    /\ pc' = "discover"
    /\ userIdx' = userIdx + 1
    /\ UNCHANGED <<inventory, metadata, disk, prog, resp, recordings, idx, cur,
                   current_token, consecutive_401s, total_401s, failedAtStart,
                   call,
                   processingDone, fn, auth, other>>

\* the loop is over: get_discovery_summary and get_2020_recordings are
\* logged
DiscoverySummary ==
    /\ pc = "discover"
    /\ userIdx > NumUsers
    /\ pc' = "summary"
    /\ UNCHANGED <<inventory, metadata, disk, prog, userIdx, resp, recordings,
                   idx, cur, current_token, consecutive_401s, total_401s,
                   failedAtStart, uncommitted, call,
                   processingDone, fn, auth, other>>

(* --------------------------- Download Engine -------------------------- *)

\* download_recordings_from_inventory, up to the loop: the rows to download
FetchRecordings ==
    /\ recordings' = get_undownloaded_recordings(inventory)
    /\ idx' = 1
    /\ pc' = "download"
    /\ cur' = NoCur

\* main() after the discovery summary
StartDownload ==
    /\ pc = "summary"
    /\ FetchRecordings
    /\ resp' = NoResp
    /\ UNCHANGED <<inventory, metadata, disk, prog, userIdx,
                   current_token, consecutive_401s, total_401s, failedAtStart,
                   uncommitted, call,
                   processingDone, fn, auth, other>>

\* the runs of one download_file call: the attempts after the first that
\* succeeds are never made
DownloadRuns ==
    {o \in AttemptOutcomes(DownloadKinds, Retries) :
        \A k \in DOMAIN o : o[k] = "ok" => \A j \in DOMAIN o : j > k => o[j] = "ok"}
NoRun == [k \in 1..RetryAttempts(Retries) |-> "ok"]
RunFails(o) == \A k \in DOMAIN o : o[k] # "ok"

\* the try block of one loop iteration up to the status update: the
\* download_*_from_inventory call for recordings[idx]. The environment decides
\* whether create_dirs raises, how the download attempts go, whether the
\* forced refresh returns a token and whether the metadata insert goes through
ProcessRecord ==
    /\ pc = "download"
    /\ idx <= Len(recordings)
    /\ LET id == recordings[idx]
           row == inventory[id]
           there == path_exists(disk, FilePath(row))
       IN \E dirExc \in BOOLEAN :
          \E o1 \in IF dirExc \/ there THEN {NoRun} ELSE DownloadRuns :
          \E refreshOk \in IF RunFails(o1) THEN BOOLEAN ELSE {FALSE} :
          \E o2 \in IF refreshOk THEN DownloadRuns ELSE {NoRun} :
          \E metaOut \in IF dirExc \/ (RunFails(o1) /\ (~refreshOk \/ RunFails(o2)))
                         THEN {"ok"} ELSE {"ok", "err"} :
            LET e == [dirExc |-> dirExc, o1 |-> o1, refreshOk |-> refreshOk,
                      o2 |-> o2, metaOut |-> metaOut]
                r == ProcessOne(row, current_token, consecutive_401s,
                                total_401s, disk, metadata, e)
            IN /\ r.total <= Max401
               /\ r.token <= MaxRefresh
               /\ \A t \in Tables :
                     RowsFor(r.metadata, t, row.recording_id) <= MaxMetaRows
               /\ disk' = r.disk
               /\ metadata' = r.metadata
               /\ current_token' = r.token
               /\ consecutive_401s' = r.consec
               /\ total_401s' = r.total
               /\ cur' = [id |-> id, success |-> r.success, calls |-> r.calls,
                          exists |-> r.exists, meta |-> r.meta,
                          raised |-> r.raised, first |-> r.first]
    /\ pc' = "update"
    /\ UNCHANGED <<inventory, prog, userIdx, resp, recordings, idx,
                   failedAtStart, uncommitted, call,
                   processingDone, fn, auth, other>>

\* the rest of the iteration: the status update of the try block and, when it
\* raises, the update of the except clause; when that raises too the
\* exception leaves download_recordings_from_inventory
UpdateStatus ==
    /\ pc = "update"
    /\ \E u1 \in AttemptOutcomes({"ok", "err"}, DbTries),
          u2 \in AttemptOutcomes({"ok", "err"}, DbTries) :
          /\ (~RetryRaises(u1, DbTries) => u2 = u1)
          /\ IF ~RetryRaises(u1, DbTries)
             THEN /\ inventory' = update_recording_status(
                                     inventory, cur.id,
                                     status_of(cur.success),
                                     IF cur.success THEN "now" ELSE NULL,
                                     NULL)
                  /\ cur' = NoCur
                  /\ idx' = idx + 1
                  /\ pc' = "download"
             ELSE IF ~RetryRaises(u2, DbTries)
             THEN /\ inventory' = update_recording_status(
                                     inventory, cur.id, "failed", NULL,
                                     "DatabaseError: update")
                  /\ cur' = NoCur
                  /\ idx' = idx + 1
                  /\ pc' = "download"
             ELSE /\ inventory' = inventory
                  /\ cur' = cur
                  /\ idx' = idx
                  /\ pc' = "aborted"
    /\ UNCHANGED <<metadata, disk, prog, userIdx, resp, recordings,
                   current_token, consecutive_401s, total_401s, failedAtStart,
                   uncommitted, call,
                   processingDone, fn, auth, other>>

\* the loop is over: the closing log lines, return current_token
FinishBatch ==
    /\ pc = "download"
    /\ idx > Len(recordings)
    /\ pc' = "done"
    /\ UNCHANGED <<inventory, metadata, disk, prog, userIdx, resp, recordings,
                   idx, cur, current_token, consecutive_401s, total_401s,
                   failedAtStart, uncommitted, call,
                   processingDone, fn, auth, other>>

(* ----------------------------- retry script --------------------------- *)

FailedIds(inv) == {i \in DOMAIN inv : inv[i].status = "failed"}

\* the UPDATE with WHERE status <> 'found'
ResetNotFound(inv) ==
    [i \in DOMAIN inv |->
        [inv[i] EXCEPT !.status = "found", !.error_message = NULL,
                       !.downloaded_at = NULL]]

\* the UPDATE that sets the status only
ResetStatusOnly(inv) ==
    [i \in DOMAIN inv |->
        IF inv[i].status = "failed"
        THEN [inv[i] EXCEPT !.status = "found"]
        ELSE inv[i]]

\* UPDATE ... SET status = 'found', error_message = NULL,
\* downloaded_at = NULL WHERE status = 'failed'
ResetFailed(inv) ==
    [i \in DOMAIN inv |->
        IF inv[i].status = "failed"
        THEN [inv[i] EXCEPT !.status = "found", !.error_message = NULL,
                            !.downloaded_at = NULL]
        ELSE inv[i]]

\* retry_failed_recordings with failed_before = 0: log and return
RetryNothing ==
    /\ pc = "idle"
    /\ StatusCount(inventory, "failed") = 0
    /\ prog' = "retry"
    /\ pc' = "done"
    /\ failedAtStart' = {}
    /\ UNCHANGED <<inventory, metadata, disk, userIdx, resp, recordings, idx,
                   cur, current_token, consecutive_401s, total_401s,
                   uncommitted, call,
                   processingDone, fn, auth, other>>

\* retry_failed_recordings with failed_before > 0: the reset and its commit
RetryReset ==
    /\ pc = "idle"
    /\ StatusCount(inventory, "failed") > 0
    /\ prog' = "retry"
    /\ failedAtStart' = FailedIds(inventory)
    /\ inventory' = ResetFailed(inventory)
    /\ pc' = "reset"
    /\ UNCHANGED <<metadata, disk, userIdx, resp, recordings, idx, cur,
                   current_token, consecutive_401s, total_401s, uncommitted,
                   call,
                   processingDone, fn, auth, other>>

\* ... then download_recordings_from_inventory
RetryDownload ==
    /\ pc = "reset"
    /\ FetchRecordings
    /\ UNCHANGED <<inventory, metadata, disk, prog, userIdx, resp,
                   current_token, consecutive_401s, total_401s, failedAtStart,
                   uncommitted, call,
                   processingDone, fn, auth, other>>

(* --------------------------- process endings -------------------------- *)

\* the rows of the table that are committed
Committed(inv, n) == SubSeq(inv, 1, Len(inv) - n)

\* what a process leaves behind: the committed store and the disk; its own
\* variables (the batch, the token and the module-level 401 counters) and the
\* open transaction of its connection are gone
ProcessEnds ==
    /\ prog' = "none"
    /\ pc' = "idle"
    /\ userIdx' = 0
    /\ resp' = NoResp
    /\ recordings' = <<>>
    /\ idx' = 0
    /\ cur' = NoCur
    /\ current_token' = 0
    /\ consecutive_401s' = 0
    /\ total_401s' = 0
    /\ failedAtStart' = {}
    /\ inventory' = Committed(inventory, uncommitted)
    /\ uncommitted' = 0
    /\ UNCHANGED <<metadata, disk, call,
                   processingDone, fn, auth, other>>

\* the program returns, or the exception of an aborted batch ends it
Exit ==
    /\ pc \in {"done", "aborted"}
    /\ ProcessEnds

\* the process is interrupted at any point of a run
Crash ==
    /\ pc \in {"discover", "commit_meetings", "phones", "commit_phones",
              "summary", "download", "update", "reset"}
    /\ ProcessEnds

Next ==
    \/ StartMain
    \/ DiscoverMeetings
    \/ CommitMeetings
    \/ DiscoverPhones
    \/ CommitPhones
    \/ DiscoverySummary
    \/ StartDownload
    \/ ProcessRecord
    \/ UpdateStatus
    \/ FinishBatch
    \/ RetryNothing
    \/ RetryReset
    \/ RetryDownload
    \/ Exit
    \/ Crash

Spec == Init /\ [][Next]_vars

\* discover_webinar_recordings for one user, called while no run is under
\* way (discover_all_recordings has the call commented out: "Add if needed"),
\* with its conn.commit()
DiscoverWebinars ==
    /\ pc = "idle"
    /\ prog = "none"
    /\ \E u \in Users, answer \in {"ok", "null"} :
          inventory' = discover_webinar_recordings(inventory, u, answer)
    /\ UNCHANGED <<metadata, disk, prog, pc, userIdx, resp, recordings, idx,
                   cur, current_token, consecutive_401s, total_401s,
                   failedAtStart, uncommitted, call, processingDone, fn, auth, other>>

\* the store before a run; the meeting file Zoom was processing may be ready
RunInit ==
    /\ InitStore
    /\ processingDone \in BOOLEAN

\* one uninterrupted run of main() on a fresh store, after webinar discovery
RunNext ==
    \/ DiscoverWebinars
    \/ StartMain
    \/ DiscoverMeetings
    \/ CommitMeetings
    \/ DiscoverPhones
    \/ CommitPhones
    \/ DiscoverySummary
    \/ StartDownload
    \/ ProcessRecord
    \/ UpdateStatus
    \/ FinishBatch

RunSpec == RunInit /\ [][RunNext]_vars

\* make_api_request on its own: any URL, any budget, any outcomes
ApiNext ==
    \/ ApiCall
    \/ ApiAttempt
    \/ ApiReturn

ApiSpec == Init /\ [][ApiNext]_vars

(* ------------------- library functions on their own ------------------- *)

\* one call of a function, on arguments of any shape

CallGetFileExtension ==
    /\ fn.op = "none"
    /\ \E ext \in Strs \cup {Missing}, type \in Strs \cup {Missing} :
          LET file_info == [file_extension |-> ext, file_type |-> type]
          IN fn' = [op |-> "get_file_extension", in |-> file_info,
                    out |-> get_file_extension(file_info, file_extensions)]
    /\ UNCHANGED <<pipeline, call, processingDone, auth, other>>

CallAddPasscode ==
    /\ fn.op = "none"
    /\ \E url \in Urls, passcode \in Passcodes :
          fn' = [op |-> "add_passcode_to_url",
                 in |-> [url |-> url, passcode |-> passcode],
                 out |-> add_passcode_to_url(url, passcode)]
    /\ UNCHANGED <<pipeline, call, processingDone, auth, other>>

CallMeetingRequests ==
    /\ fn.op = "none"
    /\ \E answers \in [1..NumRanges -> WindowAnswers] :
          fn' = [op |-> "discover_meeting_recordings", in |-> answers,
                 out |-> meeting_requests(answers, 1, 1)]
    /\ UNCHANGED <<pipeline, call, processingDone, auth, other>>

CallGenerateDateRanges ==
    /\ fn.op = "none"
    /\ \E start \in Dates, end \in Dates, m \in 1..MaxMonthsPerRange :
          fn' = [op |-> "generate_date_ranges",
                 in |-> [start |-> start, end |-> end, months |-> m],
                 out |-> generate_date_ranges(start, end, m)]
    /\ UNCHANGED <<pipeline, call, processingDone, auth, other>>

\* download_file called on its own. An attempt of _download_file_with_retry
\* ends as one of DownloadKinds or with an exception that is none of
\* RequestException, OSError, IOError ("other": a KeyError of the config, a
\* TypeError)
MaxDelay == 2
AttemptKinds == DownloadKinds \cup {"other"}

\* file_retry: retry((RequestException, OSError, IOError), ...)
FileRetryCatches(kind) == kind \in {"http401", "error", "partial"}

\* utils/misc.py retry, f_retry: the k-th call of f with mtries and mdelay;
\* sleeps are the time.sleep(mdelay) calls made so far
RECURSIVE f_retry(_, _, _, _, _, _)
f_retry(outs, k, mtries, mdelay, backoff, sleeps) ==
    IF mtries > 1
    THEN IF outs[k] = "ok"
         THEN [ret |-> "True", attempts |-> k, sleeps |-> sleeps]
         ELSE IF FileRetryCatches(outs[k])
         THEN f_retry(outs, k + 1, mtries - 1, mdelay * backoff, backoff,
                      Append(sleeps, mdelay))
         ELSE [ret |-> "raise", attempts |-> k, sleeps |-> sleeps]
    ELSE IF outs[k] = "ok"
         THEN [ret |-> "True", attempts |-> k, sleeps |-> sleeps]
         ELSE [ret |-> "raise", attempts |-> k, sleeps |-> sleeps]

\* a decoration with exponential backoff
decorated_download_backoff(outs, retries, delay) ==
    f_retry(outs, 1, retries, delay, 2, <<>>)

\* file_retry(tries=retries, delay=download_retry, backoff=1) applied to
\* _download_file_with_retry
decorated_download(outs, retries, delay) ==
    f_retry(outs, 1, retries, delay, 1, <<>>)

\* download_file: try: return decorated_download(...) except Exception:
\* return False
download_file_call(outs, retries, delay) ==
    LET r == decorated_download(outs, retries, delay)
    IN  [r EXCEPT !.ret = IF @ = "raise" THEN "False" ELSE @]

CallDownloadFile ==
    /\ fn.op = "none"
    /\ \E retries \in 0..(Retries + 1), delay \in 1..MaxDelay :
       \E outs \in [1..(Retries + 1) -> AttemptKinds] :
          fn' = [op |-> "download_file",
                 in |-> [outs |-> outs, retries |-> retries, delay |-> delay],
                 out |-> download_file_call(outs, retries, delay)]
    /\ UNCHANGED <<pipeline, call, processingDone, auth, other>>

FnNext ==
    \/ CallGetFileExtension
    \/ CallAddPasscode
    \/ CallMeetingRequests
    \/ CallGenerateDateRanges
    \/ CallDownloadFile

FnSpec == Init /\ [][FnNext]_vars

(* --------------------- the token and a discovery run ------------------ *)

\* time passes between two calls
Tick ==
    /\ call.pc = "idle"
    /\ auth.now < MaxTime
    /\ auth' = [auth EXCEPT !.now = @ + 1]
    /\ UNCHANGED <<pipeline, call, processingDone, fn, other>>

\* get_access_token is called, by main() (token = get_access_token(config),
\* the token the discovery run then passes to every request) or by another
\* caller, with or without force_refresh
GetAccessToken ==
    /\ call.pc = "idle"
    /\ auth.issued < MaxTokens
    /\ \E force_refresh \in BOOLEAN, credentials \in BOOLEAN, main \in BOOLEAN,
          outs \in AttemptOutcomes({"ok", "err"}, TokenTries),
          expires_in \in ExpiresIn :
          LET r == get_access_token(auth, force_refresh, credentials, outs,
                                    expires_in)
              a == [r EXCEPT !.mint = MintOutcome(credentials, outs)]
          IN  /\ main => ~force_refresh
              /\ auth' = IF main /\ a.ret = "token"
                         THEN [a EXCEPT !.held = a.returned, !.sent = 0,
                                        !.rejected = 0]
                         ELSE a
    /\ UNCHANGED <<pipeline, call, processingDone, fn, other>>

\* the token of a request: the argument of the call until a 401 has
\* replaced it by the token get_access_token(force_refresh=True) returned
TokenSent(c, a) == IF c.token = 0 THEN a.held ELSE a.access_token

\* discover_meeting_recordings / discover_phone_recordings call
\* make_api_request(url, token, config, params) with the token they were given
RequestCall ==
    /\ call.pc = "idle"
    /\ auth.held # 0
    /\ \E endpoint \in {"meetings", "phone"}, email \in Emails,
          retries \in 1..MaxApiRetries :
          call' = [NoCall EXCEPT !.pc = "loop", !.endpoint = endpoint,
                                 !.url = UrlOf(endpoint, email),
                                 !.retries = retries]
    /\ UNCHANGED <<pipeline, processingDone, fn, auth, other>>

\* one iteration of its loop; a 401 before the last attempt calls
\* get_access_token(config, force_refresh=True)
RequestAttempt ==
    /\ call.pc = "loop"
    /\ auth.held # 0
    /\ \E o \in HttpOutcomes :
       \E refreshOk \in IF o = "401" /\ call.attempt < call.retries - 1
                           /\ auth.issued < MaxTokens
                        THEN BOOLEAN ELSE {FALSE} :
       \E expires_in \in IF refreshOk THEN ExpiresIn ELSE {1} :
          LET refreshing == o = "401" /\ call.attempt < call.retries - 1
              sent == TokenSent(call, auth)
              outs == [k \in 1..RetryAttempts(TokenTries) |->
                          IF refreshOk THEN "ok" ELSE "err"]
              a == IF refreshing
                   THEN [get_access_token(auth, TRUE, TRUE, outs, expires_in)
                            EXCEPT !.mint = MintOutcome(TRUE, outs)]
                   ELSE auth
          IN  /\ call' = ApiIteration(call, o, refreshOk)
              /\ auth' = [a EXCEPT !.sent = sent,
                                   !.rejected = IF refreshing /\ refreshOk
                                                THEN sent ELSE @]
    /\ UNCHANGED <<pipeline, processingDone, fn, other>>

\* the discovery function has the result (or the exception)
RequestReturn ==
    /\ call.pc = "returned"
    /\ auth.held # 0
    /\ call' = NoCall
    /\ UNCHANGED <<pipeline, processingDone, fn, auth, other>>

AuthNext ==
    \/ Tick
    \/ GetAccessToken
    \/ RequestCall
    \/ RequestAttempt
    \/ RequestReturn

AuthSpec == Init /\ [][AuthNext]_vars

(* --------------------------- a second process ------------------------- *)

\* download_recordings_from_inventory of the first process is under way
BatchInProgress == prog = "main" /\ pc \in {"download", "update"}

\* a second run reaches its download phase while the first is in its batch:
\* get_undownloaded_recordings, with a token and 401 counters of its own
OtherBatch ==
    /\ other.pc \in {"idle", "reset"}
    /\ other.pc = "idle" => BatchInProgress
    /\ other' = [other EXCEPT !.pc = "download",
                              !.recordings = get_undownloaded_recordings(inventory),
                              !.idx = 1]
    /\ UNCHANGED <<pipeline, call, processingDone, fn, auth>>

\* retry_failed_downloads.py is started while the first process is in its
\* batch: the reset of the failed rows and its commit
OtherReset ==
    /\ other.pc = "idle"
    /\ BatchInProgress
    /\ StatusCount(inventory, "failed") > 0
    /\ inventory' = ResetFailed(inventory)
    /\ other' = [other EXCEPT !.pc = "reset"]
    /\ UNCHANGED <<metadata, disk, prog, pc, userIdx, resp, recordings, idx,
                   cur, current_token, consecutive_401s, total_401s,
                   failedAtStart, uncommitted, call, processingDone, fn, auth>>

\* whether a call under @db_retry raises after its last try
DbRaises == {RetryRaises(u, DbTries) : u \in AttemptOutcomes({"ok", "err"}, DbTries)}

\* what one download_*_from_inventory call can come to for a row, over
\* everything the environment decides (as in ProcessRecord)
ProcessResults(row, token, consec, total, dsk, md) ==
    LET there == path_exists(dsk, FilePath(row))
        envs == UNION { UNION { UNION { UNION {
                  { [dirExc |-> dirExc, o1 |-> o1, refreshOk |-> refreshOk,
                     o2 |-> o2, metaOut |-> metaOut] :
                    metaOut \in IF dirExc \/ (RunFails(o1) /\ (~refreshOk \/ RunFails(o2)))
                                THEN {"ok"} ELSE {"ok", "err"} } :
                  o2 \in IF refreshOk THEN DownloadRuns ELSE {NoRun} } :
                  refreshOk \in IF RunFails(o1) THEN BOOLEAN ELSE {FALSE} } :
                  o1 \in IF dirExc \/ there THEN {NoRun} ELSE DownloadRuns } :
                  dirExc \in BOOLEAN }
    IN  {ProcessOne(row, token, consec, total, dsk, md, e) : e \in envs}

\* one iteration of the loop of the second process: the download call and
\* the status update (the update of the try block; when it raises, the one of
\* the except clause; when that raises too, the batch is left)
OtherRecord ==
    /\ other.pc = "download"
    /\ BatchInProgress
    /\ other.idx <= Len(other.recordings)
    /\ LET id == other.recordings[other.idx]
           row == inventory[id]
       IN \E r \in ProcessResults(row, other.token, other.consec, other.total,
                                  disk, metadata) :
          \E raises1 \in DbRaises :
          \E raises2 \in IF raises1 THEN DbRaises ELSE {FALSE} :
               /\ r.total <= Max401
               /\ r.token <= MaxRefresh
               /\ \A t \in Tables :
                     RowsFor(r.metadata, t, row.recording_id) <= MaxMetaRows
               /\ disk' = r.disk
               /\ metadata' = r.metadata
               /\ inventory' =
                     IF ~raises1
                     THEN update_recording_status(
                              inventory, id, status_of(r.success),
                              IF r.success THEN "now" ELSE NULL, NULL)
                     ELSE IF ~raises2
                     THEN update_recording_status(
                              inventory, id, "failed", NULL,
                              "DatabaseError: update")
                     ELSE inventory
               /\ other' = [other EXCEPT
                     !.token = r.token, !.consec = r.consec, !.total = r.total,
                     !.idx = IF raises1 /\ raises2 THEN @ ELSE @ + 1,
                     !.pc = IF raises1 /\ raises2 THEN "aborted" ELSE @]
    /\ UNCHANGED <<prog, pc, userIdx, resp, recordings, idx, cur,
                   current_token, consecutive_401s, total_401s, failedAtStart,
                   uncommitted, call, processingDone, fn, auth>>

\* the loop of the second process is over
OtherFinish ==
    /\ other.pc = "download"
    /\ BatchInProgress
    /\ other.idx > Len(other.recordings)
    /\ other' = [other EXCEPT !.pc = "done"]
    /\ UNCHANGED <<pipeline, call, processingDone, fn, auth>>

\* one run of main() and, during its batch, a second process
ConcNext ==
    \/ StartMain
    \/ DiscoverMeetings
    \/ CommitMeetings
    \/ DiscoverPhones
    \/ CommitPhones
    \/ DiscoverySummary
    \/ StartDownload
    \/ ProcessRecord
    \/ UpdateStatus
    \/ FinishBatch
    \/ OtherBatch
    \/ OtherReset
    \/ OtherRecord
    \/ OtherFinish

ConcSpec == Init /\ [][ConcNext]_vars

(* ----------------- the download engine inside main.py ---------------- *)

\* main.py download_file: for attempt in range(retries), every exception
\* caught; outs[k] is how the k-th requests.get / write ends
RECURSIVE main_download_attempts(_, _, _, _)
main_download_attempts(file, outs, k, n) ==
    IF k > n THEN [success |-> FALSE, file |-> file]
    ELSE IF outs[k] = "ok" THEN [success |-> TRUE, file |-> "complete"]
    ELSE main_download_attempts(AfterFailedAttempt(file, outs[k]), outs, k + 1, n)

main_download_file(file, outs, retries) ==
    main_download_attempts(file, outs, 1, retries)

\* main.py save_meeting_metadata / save_phone_metadata: INSERT ... ON CONFLICT
\* DO NOTHING and commit, or rollback and False
main_save_metadata(md, table, row, path, out) ==
    IF out = "ok"
    THEN [success |-> TRUE,
          md |-> [md EXCEPT ![table] = InsertMetadata(@, table, MetadataRow(row, path))]]
    ELSE [success |-> FALSE, md |-> md]

\* a variant that downloads without looking for the file first
main_download_always(row, table, dsk, md, e) ==
    IF e.dirExc
    THEN [success |-> FALSE, disk |-> dsk, metadata |-> md]
    ELSE LET path == FilePath(row)
             d == main_download_file(dsk[path], e.outs, Retries)
             dsk2 == [dsk EXCEPT ![path] = d.file]
         IN  IF ~d.success
             THEN [success |-> FALSE, disk |-> dsk2, metadata |-> md]
             ELSE LET m == main_save_metadata(md, table, row, path, e.metaOut)
                  IN  [success |-> m.success, disk |-> dsk2, metadata |-> m.md]

\* main.py download_meeting_from_inventory / download_phone_from_inventory
main_download_from_inventory(row, table, dsk, md, e) ==
    IF e.dirExc
    THEN [success |-> FALSE, disk |-> dsk, metadata |-> md]
    ELSE LET path == FilePath(row)
             d == IF path_exists(dsk, path)
                  THEN [success |-> TRUE, file |-> dsk[path]]
                  ELSE main_download_file(dsk[path], e.outs, Retries)
             dsk2 == [dsk EXCEPT ![path] = d.file]
         IN  IF ~d.success
             THEN [success |-> FALSE, disk |-> dsk2, metadata |-> md]
             ELSE LET m == main_save_metadata(md, table, row, path, e.metaOut)
                  IN  [success |-> m.success, disk |-> dsk2, metadata |-> m.md]

\* main.py download_recordings_from_inventory: the SELECT of the found rows
main_select_found(inv) ==
    Descending({i \in DOMAIN inv : inv[i].status = "found"})

\* one iteration of the loop of main.py: dispatch on rec_type, the UPDATE of
\* the try block (status and downloaded_at), the UPDATE of the except clause
\* (status and error_message) when it raises; an exception of that one
\* leaves the function
main_iteration(st, id, e) ==
    LET row == st.inventory[id]
        r == IF row.recording_type \in {"meeting", "phone"}
             THEN main_download_from_inventory(row, row.recording_type,
                                               st.disk, st.metadata, e)
             ELSE [success |-> FALSE, disk |-> st.disk, metadata |-> st.metadata]
        got == [st EXCEPT !.disk = r.disk, !.metadata = r.metadata]
    IN  IF e.db1 = "ok"
        THEN [got EXCEPT
                !.inventory[id].status =
                    IF r.success THEN "downloaded" ELSE "failed",
                !.inventory[id].downloaded_at =
                    IF r.success THEN "now" ELSE NULL]
        ELSE IF e.db2 = "ok"
        THEN [got EXCEPT !.inventory[id].status = "failed",
                         !.inventory[id].error_message = "DatabaseError: update"]
        ELSE [got EXCEPT !.aborted = TRUE]

\* one iteration of the loop of zoom_api/download.py on the same terms
advanced_iteration(st, id, e) ==
    LET row == st.inventory[id]
        r == ProcessOne(row, st.token, st.consec, st.total, st.disk,
                        st.metadata,
                        [dirExc |-> e.dirExc, o1 |-> e.runs,
                         refreshOk |-> e.refreshOk, o2 |-> e.runs,
                         metaOut |-> e.metaOut])
        got == [st EXCEPT !.disk = r.disk, !.metadata = r.metadata,
                          !.token = r.token, !.consec = r.consec,
                          !.total = r.total]
    IN  IF ~RetryRaises(e.u1, DbTries)
        THEN [got EXCEPT !.inventory =
                 update_recording_status(@, id, status_of(r.success),
                                         IF r.success THEN "now" ELSE NULL, NULL)]
        ELSE IF ~RetryRaises(e.u2, DbTries)
        THEN [got EXCEPT !.inventory =
                 update_recording_status(@, id, "failed", NULL,
                                         "DatabaseError: update")]
        ELSE [got EXCEPT !.aborted = TRUE]

\* both engines are started on copies of one store: an inventory of meeting
\* and phone rows, files some of which an earlier run left, and for every
\* file the way each of its download attempts ends
EnginesStart ==
    /\ fn.op = "none"
    /\ \E ms \in SUBSET MeetingFiles, ps \in SUBSET PhoneFiles :
       LET inv == InsertPhones(InsertMeetings(<<>>, InOrder(ms)), InOrder(ps))
       IN  \E fixed \in [DOMAIN inv -> DownloadKinds] :
           \E left \in SUBSET {FilePath(inv[i]) : i \in DOMAIN inv} :
              LET dsk == [p \in Paths |-> IF p \in left THEN "complete" ELSE "absent"]
                  md == [t \in Tables |-> EmptyBag]
              IN  fn' = [op |-> "engines",
                         in |-> [inventory |-> inv, disk |-> dsk, fixed |-> fixed],
                         out |-> [idx |-> 1, dbFailed |-> FALSE,
                                  simple |-> [inventory |-> inv, metadata |-> md,
                                              disk |-> dsk, aborted |-> FALSE,
                                              recordings |-> main_select_found(inv)],
                                  advanced |-> [inventory |-> inv, metadata |-> md,
                                                disk |-> dsk, aborted |-> FALSE,
                                                recordings |-> get_undownloaded_recordings(inv),
                                                token |-> 0, consec |-> 0,
                                                total |-> 0]]]
    /\ UNCHANGED <<pipeline, call, processingDone, auth, other>>

\* the next iteration of both loops, in the same environment: whether
\* create_dirs raises, whether the metadata insert goes through, whether the
\* forced refresh returns a token, and how the executions of the two UPDATE
\* statements end
EnginesRecord ==
    /\ fn.op = "engines"
    /\ fn.out.idx <= Len(fn.out.advanced.recordings)
    /\ \E dirExc \in BOOLEAN, refreshOk \in BOOLEAN, metaOut \in {"ok", "err"} :
       \E u1 \in AttemptOutcomes({"ok", "err"}, DbTries) :
       \E u2 \in IF u1[1] = "err"
                 THEN AttemptOutcomes({"ok", "err"}, DbTries) ELSE {u1} :
          LET k == fn.out.idx
              s == fn.out.simple
              a == fn.out.advanced
              kind == fn.in.fixed[a.recordings[k]]
              es == [dirExc |-> dirExc, metaOut |-> metaOut,
                     outs |-> [j \in 1..Retries |-> kind],
                     db1 |-> u1[1], db2 |-> u2[1]]
              ea == [dirExc |-> dirExc, metaOut |-> metaOut,
                     refreshOk |-> refreshOk,
                     runs |-> [j \in 1..RetryAttempts(Retries) |-> kind],
                     u1 |-> u1, u2 |-> u2]
          IN  fn' = [fn EXCEPT
                 !.out = [idx |-> k + 1,
                          dbFailed |-> @.dbFailed \/ u1[1] = "err",
                          simple |-> IF s.aborted \/ k > Len(s.recordings) THEN s
                                     ELSE main_iteration(s, s.recordings[k], es),
                          advanced |-> IF a.aborted THEN a
                                       ELSE advanced_iteration(a, a.recordings[k], ea)]]
    /\ UNCHANGED <<pipeline, call, processingDone, auth, other>>

EnginesNext ==
    \/ EnginesStart
    \/ EnginesRecord

EnginesSpec == Init /\ [][EnginesNext]_vars

TypeOK ==
    /\ pc \in {"idle", "discover", "commit_meetings", "phones", "commit_phones",
              "summary", "download", "update", "reset", "done", "aborted"}
    /\ uncommitted \in 0..Len(inventory)
    /\ prog \in {"none", "main", "retry"}
    /\ \A i \in DOMAIN inventory :
          inventory[i].status \in {"found", "downloaded", "failed", "skipped"}
    /\ \A p \in Paths : disk[p] \in {"absent", "partial", "complete"}
    /\ total_401s \in 0..Max401
    /\ consecutive_401s \in 0..Max401
    /\ current_token \in 0..MaxRefresh

(* ------------------------------ the steps ----------------------------- *)

\* a discover_*_recordings call of discover_all_recordings is taken
DiscoverStep ==
    \/ pc = "discover" /\ userIdx <= NumUsers
                       /\ pc' \in {"commit_meetings", "discover"}
    \/ pc = "phones" /\ pc' \in {"commit_phones", "discover"}

\* the download_*_from_inventory call of one record is taken
ProcessStep == pc = "download" /\ pc' = "update"

\* the status of the processed record is written and the loop goes on
UpdateStep == pc = "update" /\ pc' = "download"

\* the retry script runs its check of the failed count, and its reset
RetryStep == pc = "idle" /\ prog' = "retry"

StatusOf(i) == inventory[i].status

InBatch(i) == \E k \in DOMAIN recordings : recordings[k] = i

(* ------------------------------- claims ------------------------------- *)

\* the files the API returns for user u that discovery accepts
AcceptedFiles(u) ==
    {f \in ApiFiles : ApiUser(f) = u /\ ApiUrl(f) # ""
                      /\ (ApiType(f) = "meeting" => ApiStatus(f) = "completed")}

HasRow(f) ==
    \E i \in DOMAIN inventory :
        InventoryKey(inventory[i]) = <<ApiType(f), f, ApiFileType(f)>>

OneRowPerKey ==
    \A i, j \in DOMAIN inventory :
        InventoryKey(inventory[i]) = InventoryKey(inventory[j]) => i = j

\* C1: discovery run again for a user whose pages are already in the
\* inventory adds no row (whatever the API answers this time), and the
\* inventory never holds two rows with the same (recording_type,
\* recording_id, file_type).
C1_DiscoveryIdempotent ==
    /\ []OneRowPerKey
    /\ [][(DiscoverStep /\ \A f \in AcceptedFiles(userIdx) : HasRow(f))
            => inventory' = inventory]_vars

\* a later run has discovered user 1 again, with the API returning the
\* user's pages: the user's row was already downloaded by an earlier run
C1_Witness ==
    /\ pc = "discover"
    /\ userIdx = 2
    /\ resp = [m |-> "ok", p |-> "ok"]
    /\ \E i \in DOMAIN inventory :
          inventory[i].user_email = 1 /\ StatusOf(i) = "downloaded"

\* C2: a record that is downloaded stays downloaded; a status only changes
\* from found to downloaded or failed, or from failed to found in the reset
\* of the retry script (a row that leaves the table was inserted and never
\* committed, and is found).
C2_StatusMonotonic ==
    [][\A i \in DOMAIN inventory :
          IF i \notin DOMAIN inventory' THEN StatusOf(i) = "found" ELSE
          /\ StatusOf(i) = "downloaded" => inventory'[i].status = "downloaded"
          /\ inventory'[i].status # StatusOf(i) =>
                \/ /\ StatusOf(i) = "found"
                   /\ inventory'[i].status \in {"downloaded", "failed"}
                   /\ UpdateStep
                \/ /\ StatusOf(i) = "failed"
                   /\ inventory'[i].status = "found"
                   /\ RetryStep]_vars

\* a retry batch has run to its end beside a record downloaded before it
C2_Witness ==
    /\ prog = "retry"
    /\ pc = "done"
    /\ recordings # <<>>
    /\ \E i \in DOMAIN inventory : StatusOf(i) = "downloaded" /\ ~InBatch(i)

NoneLeftFound ==
    pc = "done" => \A k \in DOMAIN recordings :
                      StatusOf(recordings[k]) \in {"downloaded", "failed"}

\* C3 as stated: after a batch that ran to its end no record of the batch is
\* left found, and a record is downloaded exactly when its file is on disk
\* and the metadata write returned true.
C3_AsStated ==
    /\ []NoneLeftFound
    /\ [][UpdateStep =>
            (inventory'[cur.id].status = "downloaded"
                <=> (cur.exists /\ cur.meta = "true"))]_vars

\* C3 amended: ... and a record is downloaded exactly when its file is on
\* disk, the metadata write returned true and the status update of the try
\* block did not raise; a record whose update raised is failed and carries
\* the database error as error_message.
C3_BatchOutcome ==
    /\ []NoneLeftFound
    /\ [][UpdateStep =>
            LET row == inventory'[cur.id]
                raised == row.error_message # NULL
            IN /\ row.status \in {"downloaded", "failed"}
               /\ row.status = "downloaded"
                    <=> (cur.exists /\ cur.meta = "true" /\ ~raised)
               /\ raised => row.error_message = "DatabaseError: update"]_vars

\* a batch has run to its end with one record downloaded and another one
\* failed by a status update that raised
C3_Witness ==
    /\ pc = "done"
    /\ \E k \in DOMAIN recordings : StatusOf(recordings[k]) = "downloaded"
    /\ \E k \in DOMAIN recordings :
          /\ StatusOf(recordings[k]) = "failed"
          /\ inventory[recordings[k]].error_message = "DatabaseError: update"

\* C4: whatever fails for one record, the batch goes on: when the batch has
\* ended (returned, or left by an exception) every record of it was processed.
C4_BatchNeverAborted ==
    pc \in {"done", "aborted"} => \A k \in DOMAIN recordings : k < idx

\* C5: when a step of processing a record raised, the record ends failed
\* with the text of that exception as error_message.
C5_ErrorTextStored ==
    [][(UpdateStep /\ cur.raised # "none") =>
          /\ inventory'[cur.id].status = "failed"
          /\ inventory'[cur.id].error_message = cur.raised]_vars

\* C6: a record is fetched only when its local path does not exist: a
\* processing step that calls download_file starts with the path absent.
C6_NoFetchOfExisting ==
    [][(ProcessStep /\ cur'.calls > 0) =>
          disk[FilePath(inventory[cur'.id])] = "absent"]_vars

\* a record whose file was already on disk has been processed without a fetch
C6_Witness ==
    /\ pc = "update"
    /\ cur.exists
    /\ cur.calls = 0
    /\ disk[FilePath(inventory[cur.id])] = "complete"

\* C7: every metadata table holds at most one row per recording.
C7_OneMetadataRow ==
    \A t \in Tables : \A r \in BagToSet(metadata[t]) :
        RowsFor(metadata, t, r.recording_id) <= 1

\* C8: a batch processes only records that are found when it reaches them,
\* never one already marked downloaded.
C8_OnlyFoundProcessed ==
    [][ProcessStep => inventory[cur'.id].status = "found"]_vars

\* a restarted run processes a record while another one, downloaded by an
\* earlier batch, is not part of its batch
C8_Witness ==
    /\ pc = "update"
    /\ prog = "main"
    /\ \E i \in DOMAIN inventory : StatusOf(i) = "downloaded" /\ ~InBatch(i)

\* C9: the reset of the retry script turns exactly the failed records into
\* found ones with error_message and downloaded_at cleared, and changes
\* nothing else; with no failed record it changes nothing and ends without
\* a download.
C9_ResetFrame ==
    [][RetryStep =>
          /\ DOMAIN inventory' = DOMAIN inventory
          /\ \A i \in DOMAIN inventory :
                IF StatusOf(i) = "failed"
                THEN inventory'[i] =
                        [inventory[i] EXCEPT !.status = "found",
                                             !.error_message = NULL,
                                             !.downloaded_at = NULL]
                ELSE inventory'[i] = inventory[i]
          /\ <<metadata', disk'>> = <<metadata, disk>>
          /\ (\A i \in DOMAIN inventory : StatusOf(i) # "failed") =>
                /\ inventory' = inventory
                /\ pc' = "done"
                /\ recordings' = <<>>]_vars

\* the reset has acted on a record failed with an error message, beside a
\* record with another status
C9_Witness ==
    /\ pc = "reset"
    /\ \E i \in failedAtStart :
          StatusOf(i) = "found" /\ inventory[i].error_message = NULL
    /\ \E j \in DOMAIN inventory : j \notin failedAtStart

\* C10: the retry script processes only records that were failed when it
\* started.
C10_RetryOnlyFailed ==
    [][(prog = "retry" /\ ProcessStep) => cur'.id \in failedAtStart]_vars

\* C11: after the retry operation the number of failed records has dropped by
\* at least the number of previously failed records whose cause has cleared
\* (those the retry batch downloads).
C11_FailedCountDrops ==
    (prog = "retry" /\ pc = "done") =>
        StatusCount(inventory, "failed") <=
            Cardinality(failedAtStart)
            - Cardinality({i \in failedAtStart : StatusOf(i) = "downloaded"})

(* --------------------------- claims: API client ------------------------ *)

\* an iteration of the loop of make_api_request is taken
ApiAttemptStep == call.pc = "loop" /\ call'.requests = call.requests + 1

\* C12: on a 401 that is not the last attempt of the budget make_api_request
\* forces a token refresh and, with the token minted, repeats the request:
\* every request carries the newest token; on the last attempt it returns
\* null without a refresh.
C12_RefreshOn401 ==
    /\ [][(ApiAttemptStep /\ call'.last = "401") =>
            IF call.attempt < call.retries - 1
            THEN /\ call'.refreshes = call.refreshes + 1
                 /\ call'.minted = call.minted + 1 =>
                       /\ call'.pc = "loop"
                       /\ call'.attempt = call.attempt + 1
                       /\ call'.token = call'.minted
            ELSE /\ call'.refreshes = call.refreshes
                 /\ call'.minted = call.minted
                 /\ call'.pc = "returned"
                 /\ call'.result = "null"]_vars
    /\ [][ApiAttemptStep => call'.sentWith = call.minted]_vars

\* a request was repeated with the token minted after a 401
C12_Witness ==
    /\ call.requests = 2
    /\ call.refreshes = 1
    /\ call.minted = 1
    /\ call.sentWith = 1

\* C13: a 429 response is followed by a retry and uses up no attempt of the
\* budget: the index of the running attempt counts the ordinary (non-429)
\* requests only, so a call that got k rate-limit responses still makes all
\* its ordinary attempts.
C13_RateLimitNotCounted ==
    call.pc = "loop" => call.attempt = call.requests - call.limited

\* C14: a 400/404 is the expected no-license condition (null at once) only on
\* the phone endpoint; on the users list or a user's meeting recordings it
\* is an ordinary error, retried while the budget lasts, whatever the e-mail
\* address in the URL.
C14_NoLicenseOnlyOnPhone ==
    [][(ApiAttemptStep /\ call'.last \in {"400", "404"}) =>
          IF call.endpoint = "phone"
          THEN call'.pc = "returned" /\ call'.result = "null"
          ELSE call.attempt < call.retries - 1 =>
                  call'.pc = "loop" /\ call'.attempt = call.attempt + 1]_vars

\* C15: make_api_request sleeps the rate-limit delay before every request,
\* sends at most `retries` requests, advances or returns in every iteration
\* (so it terminates), returns the JSON only of a successful request and
\* null when it returns without one.
C15_BoundedAttempts ==
    /\ [](/\ call.delays = call.requests
          /\ call.requests <= call.retries
          /\ call.pc = "loop" =>
                call.attempt < call.retries /\ call.requests = call.attempt
          /\ call.pc = "returned" =>
                /\ call.result = "json" <=> call.last = "200"
                /\ (call.last # "200" /\ call.result # "raised") =>
                      call.result = "null")
    /\ [][ApiAttemptStep =>
            call'.pc = "returned" \/ call'.attempt = call.attempt + 1]_vars

\* a call has used up its whole budget, a rate-limit response among the
\* outcomes, and returned null
C15_Witness ==
    /\ call.pc = "returned"
    /\ call.result = "null"
    /\ call.retries = MaxApiRetries
    /\ call.requests = call.retries
    /\ call.limited > 0
    /\ call.last = "500"

\* C16: make_api_request ends by returning the JSON or null and never lets
\* an exception through to its caller.
C16_NeverRaises ==
    call.pc = "returned" => call.result \in {"json", "null"}

(* ----------------------- claims: discovery, commits -------------------- *)

DiscoveryPcs == {"discover", "commit_meetings", "phones", "commit_phones"}

\* the process is killed in the middle of a run
CrashStep == prog # "none" /\ prog' = "none" /\ pc \notin {"done", "aborted"}

\* a discover_*_recordings call of the iteration has raised
DiscoverRaises ==
    \/ pc = "discover" /\ userIdx <= NumUsers /\ resp'.m = "raise"
    \/ pc = "phones" /\ resp'.p = "raise"

HasRowIn(inv, f) ==
    \E i \in DOMAIN inv :
        InventoryKey(inv[i]) = <<ApiType(f), f, ApiFileType(f)>>

\* the files of user u and of one type that carry a download URL and, for
\* meetings, the status completed
Acceptable(u, rtype) ==
    {f \in ApiFiles : /\ ApiUser(f) = u /\ ApiType(f) = rtype /\ ApiUrl(f) # ""
                      /\ rtype = "meeting" => ApiStatus(f) = "completed"}

\* the type whose pages the step has got from the API ("none": no pages)
PagesReturned ==
    IF pc = "discover" /\ pc' = "commit_meetings" /\ resp'.m = "ok"
    THEN "meeting"
    ELSE IF pc = "phones" /\ pc' = "commit_phones" /\ resp'.p = "ok"
    THEN "phone"
    ELSE "none"

\* C18: every inventory row comes from a file with a download URL and, for
\* a meeting, the status completed; and every such file on the pages the API
\* returned has its row after the insert loop, with status found when the
\* row is new.
C18_AcceptedExactly ==
    /\ [](\A i \in DOMAIN inventory :
            /\ inventory[i].download_url # ""
            /\ ApiUrl(inventory[i].recording_id) # ""
            /\ inventory[i].recording_type = "meeting" =>
                  ApiStatus(inventory[i].recording_id) = "completed")
    /\ [][PagesReturned # "none" =>
            \A f \in Acceptable(userIdx, PagesReturned) :
                /\ HasRowIn(inventory', f)
                /\ ~HasRowIn(inventory, f) =>
                      \E i \in DOMAIN inventory' :
                          /\ inventory'[i].recording_id = f
                          /\ inventory'[i].status = "found"]_vars

\* both users' pages were returned: exactly the files with a URL (and, for
\* meetings, completed) have rows
C18_Witness ==
    /\ pc = "summary"
    /\ inventory # <<>>
    /\ \A f \in ApiFiles :
          HasRow(f) <=> f \in Acceptable(ApiUser(f), ApiType(f))
    /\ \E f \in ApiFiles : ~HasRow(f) /\ ApiUrl(f) = ""
    /\ \E f \in ApiFiles : ~HasRow(f) /\ ApiStatus(f) # "completed"

\* C19: each insert and each status update is committed on its own: a crash
\* at any point of a run loses no row and no status that had been written.
C19_CrashLosesNothing ==
    [][CrashStep => inventory' = inventory]_vars

\* C20: when a download fails and the forced refresh returns a token, the
\* download is repeated exactly once, with the new token, and at no other
\* time; when the repeated download fails too the record ends failed; a
\* batch holds every record once, so one record causes at most two
\* download_file calls per batch.
C20_RetryOnceAfterRefresh ==
    /\ [][ProcessStep =>
            /\ cur'.calls \in 0..2
            /\ cur'.calls = 2 <=> current_token' = current_token + 1
            /\ cur'.calls < 2 => current_token' = current_token]_vars
    /\ [][(UpdateStep /\ cur.calls = 2 /\ ~cur.exists) =>
            inventory'[cur.id].status = "failed"]_vars
    /\ [](\A j, k \in DOMAIN recordings :
            recordings[j] = recordings[k] => j = k)

\* a download was repeated with a new token and failed again
C20_Witness ==
    /\ pc = "update"
    /\ cur.calls = 2
    /\ ~cur.exists
    /\ current_token = 1

\* C21: a metadata row is written only by the download call of a record, and
\* only when the file of the record is at its local path: it was there
\* already, or the download of this attempt has just fetched it.
C21_MetadataAfterFile ==
    [][metadata' # metadata =>
          /\ ProcessStep
          /\ disk'[FilePath(inventory[cur'.id])] # "absent"
          /\ cur'.exists
          /\ cur'.calls > 0 =>
                disk'[FilePath(inventory[cur'.id])] = "complete"]_vars

\* a record has been fetched and its metadata row written
C21_Witness ==
    /\ pc = "update"
    /\ cur.calls > 0
    /\ cur.meta = "true"
    /\ RowsFor(metadata, inventory[cur.id].recording_type,
               inventory[cur.id].recording_id) = 1

\* C22: discovery never modifies a row the inventory already holds: a
\* discover_*_recordings call leaves every column of every existing row as
\* it was, whatever the API returns for the recording.
C22_DiscoveryKeepsRows ==
    [][DiscoverStep =>
          \A i \in DOMAIN inventory :
              /\ i \in DOMAIN inventory'
              /\ inventory'[i] = inventory[i]]_vars

\* the API has returned again the pages of a user whose record is no longer
\* found
C22_Witness ==
    /\ pc = "commit_meetings"
    /\ resp.m = "ok"
    /\ uncommitted = 0
    /\ \E i \in DOMAIN inventory :
          /\ inventory[i].user_email = userIdx
          /\ inventory[i].recording_type = "meeting"
          /\ StatusOf(i) \in {"downloaded", "failed"}

\* C23: every inventory row has one of the four statuses found, downloaded,
\* failed, skipped, so the counts of the four statuses add up to the number
\* of rows, which is the total get_download_progress reports.
C23_CountsSumToTotal ==
    /\ \A i \in DOMAIN inventory : StatusOf(i) \in Statuses
    /\ SumCounts([s \in Statuses |-> StatusCount(inventory, s)], Statuses)
          = Len(inventory)
    /\ get_download_progress(inventory).total = Len(inventory)

\* the inventory holds a downloaded and a failed row, counted one each
C23_Witness ==
    /\ get_download_progress(inventory).by_status =
          [s \in {"downloaded", "failed"} |-> 1]
    /\ get_download_progress(inventory).total = 2

\* C29: a record is marked downloaded only if the file at its path is
\* complete: a download that failed part-way never leads, in the same batch
\* or after a retry / reset, to the status downloaded without a full fetch.
C29_DownloadedIsComplete ==
    \A i \in DOMAIN inventory :
        StatusOf(i) = "downloaded" =>
            disk[FilePath(inventory[i])] = "complete"

\* C30: the 401 counters count authorization failures only: a processing
\* step raises total_401s (and consecutive_401s) only when an attempt of the
\* download_file call that failed was answered with HTTP 401.
C30_CountsOnly401 ==
    [][(ProcessStep /\ total_401s' > total_401s) =>
          "http401" \in cur'.first]_vars

\* the call under study and its arguments
ExtensionCall == fn.op = "get_file_extension"
GivenExtension == Get(fn.in.file_extension, <<>>)
GivenType == Get(fn.in.file_type, <<>>)

\* C24 as stated: the lower-cased file_extension when it is non-empty,
\* whatever the file_type; otherwise the configured mapping of the
\* lower-cased file_type; otherwise the raw file_type string, or "unknown"
\* when file_type is empty or missing.
C24_AsStated ==
    ExtensionCall =>
        /\ GivenExtension # <<>> => fn.out = Lower(GivenExtension)
        /\ (GivenExtension = <<>> /\ Lower(GivenType) \in DOMAIN file_extensions)
              => fn.out = file_extensions[Lower(GivenType)]
        /\ (GivenExtension = <<>> /\ Lower(GivenType) \notin DOMAIN file_extensions)
              => fn.out = IF GivenType # <<>> THEN GivenType ELSE Unknown

\* C24: the lower-cased file_extension when it is non-empty, whatever the
\* file_type; otherwise the configured mapping of the lower-cased file_type;
\* otherwise the lower-cased file_type string, or "unknown" when file_type is
\* empty or missing. The result never holds an upper-case letter of the input.
C24_ExtensionResolution ==
    ExtensionCall =>
        /\ GivenExtension # <<>> =>
              /\ Len(fn.out) = Len(GivenExtension)
              /\ \A i \in DOMAIN fn.out : fn.out[i] = LowerChar(GivenExtension[i])
        /\ (GivenExtension = <<>> /\ Lower(GivenType) \in DOMAIN file_extensions)
              => fn.out = file_extensions[Lower(GivenType)]
        /\ (GivenExtension = <<>> /\ Lower(GivenType) \notin DOMAIN file_extensions)
              => fn.out = IF GivenType # <<>> THEN Lower(GivenType) ELSE Unknown
        /\ \A i \in DOMAIN fn.out : fn.out[i] \notin {"C", "X"}

\* a file type in upper case that the mapping does not hold, and no
\* file_extension: the fallback returns the type in lower case
C24_Witness ==
    /\ ExtensionCall
    /\ fn.in.file_extension = Missing
    /\ fn.in.file_type = <<"X", "C">>
    /\ fn.out = <<"x", "c">>

\* how often a pair, or a parameter name, occurs in a query
CountPair(query, pair) == Cardinality({i \in DOMAIN query : query[i] = pair})
CountName(query, name) == Cardinality({i \in DOMAIN query : query[i][1] = name})

\* C25: add_passcode_to_url returns the URL unchanged when the meeting data
\* has no recording_play_passcode; otherwise the result carries exactly one
\* pwd parameter, equal to the passcode, and every other query parameter
\* with its value, and applying the function again changes nothing.
C25_PasscodeAdded ==
    fn.op = "add_passcode_to_url" =>
        LET url == fn.in.url
            passcode == fn.in.passcode
        IN  IF passcode \in {NULL, ""}
            THEN fn.out = url
            ELSE /\ fn.out.base = url.base
                 /\ CountName(fn.out.query, "pwd") = 1
                 /\ CountPair(fn.out.query, <<"pwd", passcode>>) = 1
                 /\ \A i \in DOMAIN url.query :
                       url.query[i][1] # "pwd" =>
                          CountPair(fn.out.query, url.query[i])
                             = CountPair(url.query, url.query[i])
                 /\ add_passcode_to_url(fn.out, passcode) = fn.out

\* C28: when the API client returns None for a discovery request of a user,
\* discovery skips the user: the request answered with None is the last
\* meeting-recordings request for that user, no later date window is asked.
C28_NullSkipsUser ==
    fn.op = "discover_meeting_recordings" =>
        \A k \in DOMAIN fn.out :
            fn.in[fn.out[k][1]][fn.out[k][2]] = "null" => k = Len(fn.out)

\* the user whose meeting carries two recording files once Zoom has
\* processed both, and the files of that meeting
Host == ApiUser(ProcessingFile)
TheMeeting == {f \in ApiFiles : ApiType(f) = "meeting" /\ ApiUser(f) = Host}

RowOf(inv, f) ==
    CHOOSE i \in DOMAIN inv :
        InventoryKey(inv[i]) = <<ApiType(f), f, ApiFileType(f)>>

MeetingRowsOf(inv, u) ==
    {i \in DOMAIN inv : inv[i].recording_type = "meeting" /\ inv[i].user_email = u}

\* C26: end to end on a fresh store. When the API returns the pages of the
\* user whose meeting has its recording files completed, discovery inserts
\* one row per file, with status found; a meeting record processed without
\* an error has been fetched, its file is complete and it has one metadata
\* row; its status update then marks it downloaded; and when the run is over
\* with all files of the meeting downloaded, the meeting metadata table holds
\* one row per file.
C26_EndToEnd ==
    /\ [][(pc = "discover" /\ userIdx = Host /\ PagesReturned = "meeting"
             /\ processingDone) =>
            /\ \A f \in TheMeeting :
                  /\ HasRowIn(inventory', f)
                  /\ inventory'[RowOf(inventory', f)].status = "found"
            /\ Cardinality(MeetingRowsOf(inventory', Host))
                  = Cardinality(TheMeeting)]_vars
    /\ [][(ProcessStep /\ inventory[cur'.id].recording_type = "meeting"
             /\ cur'.raised = "none") =>
            /\ cur'.success
            /\ cur'.calls >= 1
            /\ disk'[FilePath(inventory[cur'.id])] = "complete"
            /\ RowsFor(metadata', "meeting", inventory[cur'.id].recording_id) = 1]_vars
    /\ [][(UpdateStep /\ cur.success /\ inventory'[cur.id].error_message = NULL) =>
            inventory'[cur.id].status = "downloaded"]_vars
    /\ []((/\ pc = "done"
           /\ processingDone
           /\ \A f \in TheMeeting :
                 /\ HasRow(f)
                 /\ StatusOf(RowOf(inventory, f)) = "downloaded")
          => /\ \A f \in TheMeeting : RowsFor(metadata, "meeting", f) = 1
             /\ BagCardinality(metadata["meeting"]) = Cardinality(TheMeeting))

\* the run is over: the two files of the meeting are downloaded without a
\* failed request, and the meeting metadata table holds two rows
C26_Witness ==
    /\ pc = "done"
    /\ processingDone
    /\ Cardinality(TheMeeting) = 2
    /\ Cardinality(MeetingRowsOf(inventory, Host)) = 2
    /\ \A f \in TheMeeting :
          /\ HasRow(f)
          /\ StatusOf(RowOf(inventory, f)) = "downloaded"
          /\ disk[FilePath(inventory[RowOf(inventory, f)])] = "complete"
    /\ BagCardinality(metadata["meeting"]) = 2
    /\ total_401s = 0

\* C27: for every recording type, meeting, phone or webinar, a found record
\* processed by the batch without any failure (no request, no write fails)
\* is marked downloaded and has a metadata row in the table of its type.
C27_EveryTypeDownloaded ==
    [][(UpdateStep /\ cur.raised = "none"
          /\ inventory'[cur.id].error_message = NULL) =>
          /\ inventory'[cur.id].status = "downloaded"
          /\ RowsFor(metadata, inventory[cur.id].recording_type,
                     inventory[cur.id].recording_id) >= 1]_vars

\* C31: consecutive_401s is 0 right after every download that succeeded and
\* right after every forced token refresh that succeeded; it never exceeds
\* total_401s, and total_401s never decreases while the process runs.
C31_CounterDiscipline ==
    /\ [](consecutive_401s <= total_401s)
    /\ [][(ProcessStep /\ cur'.calls > 0 /\ cur'.exists) =>
             consecutive_401s' = 0]_vars
    /\ [][(ProcessStep /\ current_token' # current_token) =>
             consecutive_401s' = 0]_vars
    /\ [][prog' = prog => total_401s' >= total_401s]_vars

\* a download has succeeded at the first call after an earlier record had
\* left the counter above 0
C31_Witness ==
    /\ pc = "update"
    /\ cur.calls = 1
    /\ cur.exists
    /\ total_401s >= 1
    /\ current_token = 0
    /\ consecutive_401s = 0

(* ---------------------------- claims: token --------------------------- *)

\* a request of the discovery run is sent
RequestStep ==
    auth.held # 0 /\ call.pc = "loop" /\ call'.requests = call.requests + 1

\* C32: once make_api_request has forced a token refresh after a 401, every
\* later request of the same discovery run carries the refreshed token or a
\* newer one, never again the token that was rejected.
C32_RefreshedTokenUsed ==
    [][(RequestStep /\ auth.rejected # 0) => auth'.sent > auth.rejected]_vars

\* get_access_token is called on its own and returns or raises
TokenCallStep ==
    call.pc = "idle" /\ call' = call /\ auth'.now = auth.now /\ auth' # auth

\* a token is cached and the clock is before its stored expiry
StillValid ==
    /\ auth.access_token # 0
    /\ auth.token_expires_at # <<>>
    /\ auth.now < auth.token_expires_at[1]

\* the call replaced the token and the expiry by those of a new token
Replaced ==
    /\ auth'.access_token = auth'.issued
    /\ auth'.issued = auth.issued + 1
    /\ auth'.returned = auth'.access_token
    /\ \E e \in ExpiresIn :
          auth'.token_expires_at = <<auth.now + e - TokenRefreshBuffer>>

\* C33: get_access_token returns the cached token, without a call to the
\* token endpoint, exactly when it is not forced, a token is cached and the
\* clock is before the stored expiry (expires_in minus the refresh buffer);
\* in every other case it asks the endpoint and, when that answers, replaces
\* both the token and the expiry.
C33_CachedOrMinted ==
    [][TokenCallStep =>
          IF ~auth'.forced /\ StillValid
          THEN /\ auth'.ret = "token"
               /\ auth'.returned = auth.access_token
               /\ auth'.endpoint_calls = 0
               /\ auth'.access_token = auth.access_token
               /\ auth'.token_expires_at = auth.token_expires_at
               /\ auth'.issued = auth.issued
          ELSE /\ auth'.mint # "no credentials" => auth'.endpoint_calls >= 1
               /\ auth'.mint = "ok" => auth'.ret = "token" /\ Replaced]_vars

\* a cached token had expired and a call without force has replaced it
C33_Witness ==
    /\ auth.ret = "token"
    /\ ~auth.forced
    /\ auth.endpoint_calls >= 1
    /\ auth.access_token = 2
    /\ auth.returned = 2
    /\ auth.now >= 1

\* C34: when minting fails, the endpoint failing on every retry or the
\* credentials missing, get_access_token raises and leaves the cached token
\* and its expiry as they were.
C34_FailedMintKeepsToken ==
    [][((TokenCallStep \/ RequestStep) /\ auth'.mint \in {"error", "no credentials"}
           /\ (auth'.forced \/ ~StillValid)
           /\ (RequestStep => call'.last = "401" /\ call.attempt < call.retries - 1)) =>
          /\ auth'.ret = "raised"
          /\ auth'.access_token = auth.access_token
          /\ auth'.token_expires_at = auth.token_expires_at]_vars

\* the endpoint failed on every retry while a token was cached
C34_Witness ==
    /\ auth.ret = "raised"
    /\ auth.mint = "error"
    /\ auth.endpoint_calls = TokenTries
    /\ auth.access_token = 1
    /\ auth.token_expires_at # <<>>

\* C35: generate_date_ranges(start, end, m) with m >= 1 returns windows that
\* partition [start, end): the first begins at start, every window ends
\* where the next begins, the last ends at end, no window is empty or longer
\* than m months; the list is empty when start >= end.
C35_WindowsPartition ==
    fn.op = "generate_date_ranges" =>
        LET r == fn.out
            start == fn.in.start
            end == fn.in.end
        IN  IF ~Before(start, end)
            THEN r = <<>>
            ELSE /\ Len(r) >= 1
                 /\ r[1][1] = start
                 /\ r[Len(r)][2] = end
                 /\ \A k \in 1..(Len(r) - 1) : r[k][2] = r[k + 1][1]
                 /\ \A k \in DOMAIN r :
                       /\ Before(r[k][1], r[k][2])
                       /\ ~Before(AddMonths(r[k][1], fn.in.months), r[k][2])

\* windows of one month from the last day of a long month: the day is cut in
\* the short month that follows
C35_Witness ==
    /\ fn.op = "generate_date_ranges"
    /\ fn.in = [start |-> <<1, 3>>, end |-> <<4, 1>>, months |-> 1]
    /\ fn.out = << << <<1, 3>>, <<2, 2>> >>, << <<2, 2>>, <<3, 2>> >>,
                   << <<3, 2>>, <<4, 1>> >> >>

\* C36: in every state of the inventory downloaded_at is set exactly for the
\* records with status downloaded, and error_message is set only for
\* records with status failed.
C36_ColumnsFollowStatus ==
    \A i \in DOMAIN inventory :
        /\ inventory[i].downloaded_at # NULL <=> StatusOf(i) = "downloaded"
        /\ inventory[i].error_message # NULL => StatusOf(i) = "failed"

\* one record is downloaded with its timestamp, another failed with the
\* text of the exception
C36_Witness ==
    \E i, j \in DOMAIN inventory :
        /\ StatusOf(i) = "downloaded"
        /\ inventory[i].downloaded_at # NULL
        /\ StatusOf(j) = "failed"
        /\ inventory[j].error_message # NULL

\* C37: every meeting or phone record with status downloaded has a row with
\* its recording_id in the metadata table of its type, and the path of that
\* row is the path of the record, where a file is present.
C37_DownloadedHasMetadata ==
    \A i \in DOMAIN inventory :
        (StatusOf(i) = "downloaded"
            /\ inventory[i].recording_type \in {"meeting", "phone"}) =>
           \E r \in BagToSet(metadata[inventory[i].recording_type]) :
              /\ r.recording_id = inventory[i].recording_id
              /\ r.path = FilePath(inventory[i])
              /\ disk[r.path] # "absent"

\* a meeting record and a phone record are downloaded, each with its row
C37_Witness ==
    /\ \E i \in DOMAIN inventory :
          /\ StatusOf(i) = "downloaded"
          /\ inventory[i].recording_type = "meeting"
          /\ RowsFor(metadata, "meeting", inventory[i].recording_id) >= 1
    /\ \E i \in DOMAIN inventory :
          /\ StatusOf(i) = "downloaded"
          /\ inventory[i].recording_type = "phone"
          /\ RowsFor(metadata, "phone", inventory[i].recording_id) = 1

\* a step of the second process
OtherStep == other' # other

\* C38: while a batch is in progress, a second batch or a retry / reset in
\* another process never sets a record that has reached the status
\* downloaded to failed or found.
C38_OtherKeepsDownloaded ==
    [][OtherStep =>
          \A i \in DOMAIN inventory :
              StatusOf(i) = "downloaded" =>
                 inventory'[i].status = "downloaded"]_vars

\* C39: one download_file call makes at most `retries` HTTP attempts (one when
\* retries <= 1), sleeps the same download-retry delay between consecutive
\* attempts, returns True at the first attempt that succeeds, and returns
\* False, never raising, when every attempt made fails.
C39_DownloadFileAttempts ==
    fn.op = "download_file" =>
       LET n == fn.out.attempts
           outs == fn.in.outs
       IN  /\ fn.in.retries > 1 => n \in 1..fn.in.retries
           /\ fn.in.retries <= 1 => n = 1
           /\ Len(fn.out.sleeps) = n - 1
           /\ \A j \in DOMAIN fn.out.sleeps : fn.out.sleeps[j] = fn.in.delay
           /\ \A j \in 1..(n - 1) : outs[j] # "ok"
           /\ fn.out.ret = IF outs[n] = "ok" THEN "True" ELSE "False"

\* a call with three tries whose attempts all fail: two sleeps, False
C39_Witness ==
    /\ fn.op = "download_file"
    /\ fn.in.retries > 2
    /\ fn.out.attempts = fn.in.retries
    /\ Len(fn.out.sleeps) = fn.in.retries - 1
    /\ fn.out.ret = "False"

\* both loops of a comparison are over
EnginesDone ==
    /\ fn.op = "engines"
    /\ fn.out.idx > Len(fn.out.advanced.recordings)

\* the two engines left the same statuses and the same metadata rows
SameOutcome ==
    /\ \A i \in DOMAIN fn.in.inventory :
          fn.out.simple.inventory[i].status = fn.out.advanced.inventory[i].status
    /\ fn.out.simple.metadata = fn.out.advanced.metadata

====
